---- MODULE Spec2Model ----
(***************************************************************************)
(* Order-book reconstruction of the Binance book-change mappers            *)
(* (BinanceBookChangeMapper, BinanceFuturesBookChangeMapper), the ring     *)
(* buffer they keep per symbol, the Binance futures derivative-ticker      *)
(* mapper, and the registry that builds mappers (normalizeTrades,          *)
(* normalizeBookChanges, normalizeDerivativeTickers).                      *)
(*                                                                         *)
(* Spec: one book-change mapper is built by Init; every step is one map    *)
(* call whose generator is drained to its end (or to the error it raises)  *)
(* before the next call.                                                   *)
(* SpecRegistry: the normalize functions are called for one exchange       *)
(* identifier, and the Binance book-change mappers they return are fed     *)
(* messages.                                                               *)
(* SpecRing: one CircularBuffer is appended to, read and cleared.          *)
(* SpecTickers: one derivative-ticker mapper is fed markPrice and ticker   *)
(* messages.                                                               *)
(***************************************************************************)
EXTENDS Integers, Sequences, FiniteSets, TLC

VARIABLES
    now,                       \* new Date().valueOf() when the mapper was built
    referenceTimestamp,        \* the localTimestamp given to normalizeBookChanges
    mapper,                    \* the constructed mapper: class, exchange, ignoreBookSnapshotOverlapError
    symbolToDepthInfoMapping,  \* symbol -> LocalDepthInfo, of that mapper
    calls,                     \* number of map calls made so far
    lastCall,                  \* <<>>, or <<c>>: message, state before, and outcome of the last map call
    history,                   \* symbol -> what the mapper did for it over the whole run (observer)
    unfailed,                  \* the mapping of a twin mapper that was given every message but
                               \* those on which this mapper raised an error (observer)
    registry,                  \* the mappers handed out by the normalize functions, and their state
    ring,                      \* a CircularBuffer on its own, with the values appended to it (observer)
    tickers,                   \* a BinanceFuturesDerivativeTickerMapper and its last map call
    sequences                  \* the map generators of the mapper that were created and are
                               \* driven one next() at a time, and what they yielded (observer)

vars == <<now, referenceTimestamp, mapper, symbolToDepthInfoMapping, calls, lastCall, history,
          unfailed, registry, ring, tickers, sequences>>

----------------------------------------------------------------------------
(* Bounds of the model *)

\* number of map calls in a run
MaxCalls == 4

\* capacity given to each symbol's CircularBuffer (the mapper passes 200)
BufferCapacity == 2

\* the clock value at which the mapper is built
Now == 200000

----------------------------------------------------------------------------
(* Inputs *)

Streams == {"btcusdt", "ethusdt"}

\* String.prototype.toUpperCase on the stream names used
toUpperCase(s) ==
    CASE s = "btcusdt" -> "BTCUSDT"
      [] s = "ethusdt" -> "ETHUSDT"
      [] OTHER -> s

\* Number(s) on the decimal strings used as prices and amounts
Number(s) == CHOOSE n \in 0..17 : ToString(n) = s

\* price levels of a depth snapshot and of a depth update, as sent: [price, amount] strings
SnapshotBids(id) == << <<"10", "1">> >>
SnapshotAsks(id) == << <<"11", "1">> >>
UpdateBids(U) == << <<ToString(U), "2">> >>
UpdateAsks(U) == << <<ToString(U + 10), "0">> >>

\* depthSnapshot payloads: lastUpdateId -1 is what an empty book carries
SnapshotIds(stream) == IF stream = "btcusdt" THEN {-1, 4} ELSE {4}

\* <<U, u>> ranges of the depth updates offered per stream
UpdateRanges(stream) ==
    IF stream = "btcusdt" THEN {<<2, 3>>, <<3, 4>>, <<5, 6>>, <<7, 8>>}
                          ELSE {<<5, 6>>, <<7, 8>>}

\* ranges that are also offered with the futures marker pu = -1
MarkedRanges(stream) == {<<7, 8>>}

\* message.stream is kept as its two parts around the '@': "btcusdt@depth" is <<"btcusdt", "depth">>
SnapshotMessage(stream, id) ==
    [stream |-> <<stream, "depthSnapshot">>,
     data   |-> [lastUpdateId |-> id, bids |-> SnapshotBids(id), asks |-> SnapshotAsks(id)]]

\* a spot depth update (BinanceDepthData)
DepthMessage(stream, r) ==
    [stream |-> <<stream, "depth">>,
     data   |-> [E |-> 1000 + r[2], s |-> toUpperCase(stream), U |-> r[1], u |-> r[2],
                 b |-> UpdateBids(r[1]), a |-> UpdateAsks(r[1])]]

\* a futures depth update (BinanceFuturesDepthData): the same with pu
FuturesDepthMessage(stream, r, pu) ==
    [stream |-> <<stream, "depth">>,
     data   |-> [E |-> 1000 + r[2], s |-> toUpperCase(stream), U |-> r[1], u |-> r[2],
                 b |-> UpdateBids(r[1]), a |-> UpdateAsks(r[1]), pu |-> pu]]

SnapshotMessages == UNION {{SnapshotMessage(st, id) : id \in SnapshotIds(st)} : st \in Streams}

SpotMessages ==
    SnapshotMessages \cup
    UNION {{DepthMessage(st, r) : r \in UpdateRanges(st)} : st \in Streams}

FuturesMessages ==
    SnapshotMessages \cup
    UNION {{FuturesDepthMessage(st, r, r[1] - 1) : r \in UpdateRanges(st)} : st \in Streams} \cup
    UNION {{FuturesDepthMessage(st, r, -1) : r \in MarkedRanges(st)} : st \in Streams}

----------------------------------------------------------------------------
(* CircularBuffer<T>: [_buffer, _index], _index counted from 0 as in the code *)

NewCircularBuffer == [_buffer |-> <<>>, _index |-> 0]

\* append with the cursor advanced but never wrapped
appendWithoutWrap(cb, value, bufferSize) ==
    [_buffer |-> IF cb._index < Len(cb._buffer)
                 THEN [cb._buffer EXCEPT ![cb._index + 1] = value]
                 ELSE Append(cb._buffer, value),
     _index  |-> cb._index + 1]

\* append(value): the buffer after the call
append(cb, value, bufferSize) ==
    [_buffer |-> IF cb._index < Len(cb._buffer)
                 THEN [cb._buffer EXCEPT ![cb._index + 1] = value]
                 ELSE Append(cb._buffer, value),
     _index  |-> (cb._index + 1) % bufferSize]

\* append(value) returning what slot 0 held
appendReturnFromSlotZero(cb, value, bufferSize) ==
    IF Len(cb._buffer) = bufferSize THEN <<cb._buffer[1]>> ELSE <<>>

\* append(value): what the call returns, <<>> standing for undefined
appendReturn(cb, value, bufferSize) ==
    IF Len(cb._buffer) = bufferSize THEN <<cb._buffer[cb._index + 1]>> ELSE <<>>

\* items() that starts at slot 0 instead of at the cursor
itemsFromStart(cb) == cb._buffer

\* items(): the values the generator yields when drained
items(cb) ==
    [i \in 1..Len(cb._buffer) |-> cb._buffer[((cb._index + (i - 1)) % Len(cb._buffer)) + 1]]

count(cb) == Len(cb._buffer)

\* clear() that empties the array and leaves the cursor where it was
clearKeepingIndex(cb) == [_buffer |-> <<>>, _index |-> cb._index]

clear(cb) == [_buffer |-> <<>>, _index |-> 0]

----------------------------------------------------------------------------
(* LocalDepthInfo: a record whose optional fields are absent until assigned *)

\* reading an optional boolean field in a condition: absent (undefined) is falsy
Truthy(info, field) == field \in DOMAIN info /\ info[field]

\* info.field = value
SetField(info, field, value) ==
    [k \in DOMAIN info \cup {field} |-> IF k = field THEN value ELSE info[k]]

\* mapBookLevel
mapBookLevel(level) == [price |-> Number(level[1]), amount |-> Number(level[2])]

MapLevels(levels) == [i \in 1..Len(levels) |-> mapBookLevel(levels[i])]

\* the text of the overlap error, with the values interpolated into it
OverlapMessage(data, lastUpdateId, exchange) ==
    [text |-> "Book depth snaphot has no overlap with first update",
     update |-> data, lastUpdateId |-> lastUpdateId, exchange |-> exchange]

\* a variant that stamps the event with the exchange's event time
UpdateBookChangeStampedWithEventTime(data, exchange, isSnapshot, localTimestamp) ==
    [type |-> "book_change", symbol |-> data.s, exchange |-> exchange, isSnapshot |-> isSnapshot,
     bids |-> MapLevels(data.b), asks |-> MapLevels(data.a),
     timestamp |-> data.E, localTimestamp |-> data.E]

\* the BookChange built for a depth update
UpdateBookChange(data, exchange, isSnapshot, localTimestamp) ==
    [type |-> "book_change", symbol |-> data.s, exchange |-> exchange, isSnapshot |-> isSnapshot,
     bids |-> MapLevels(data.b), asks |-> MapLevels(data.a),
     timestamp |-> data.E, localTimestamp |-> localTimestamp]

\* Outcome of one mapBookDepthUpdate call: the mapping after it, the value returned
\* (<<>> for undefined), the error thrown (<<>> for none), what was given to debug.
Outcome(mapping, returned, thrown, debugged) ==
    [mapping |-> mapping, returned |-> returned, thrown |-> thrown, debugged |-> debugged]

\* Variants of mapBookDepthUpdate with one line changed: the stale test, the overlap test,
\* whether an accepted update advances lastUpdateId, whether a tolerated failure sets
\* validatedFirstUpdate.
ChangedMapBookDepthUpdate(m, mapping, data, localTimestamp, stale, overlaps, isSnapshot, advances, toleratedValidates) ==
    LET depthContext == mapping[data.s]
        lastUpdateId == depthContext.lastUpdateId
        moved == IF advances THEN SetField(depthContext, "lastUpdateId", data.u) ELSE depthContext
        validated == [mapping EXCEPT ![data.s] = SetField(moved, "validatedFirstUpdate", TRUE)]
        accepted == [mapping EXCEPT ![data.s] = moved]
        bookChange == UpdateBookChange(data, m.exchange, isSnapshot, localTimestamp)
        message == OverlapMessage(data, lastUpdateId, m.exchange)
    IN  IF stale
        THEN Outcome(mapping, <<>>, <<>>, <<>>)
        ELSE IF ~Truthy(depthContext, "validatedFirstUpdate")
        THEN IF overlaps
             THEN Outcome(validated, <<bookChange>>, <<>>, <<>>)
             ELSE IF m.ignoreBookSnapshotOverlapError
                  THEN Outcome(IF toleratedValidates THEN validated ELSE accepted,
                               <<bookChange>>, <<>>, <<message>>)
                  ELSE Outcome(mapping, <<>>, <<message>>, <<>>)
        ELSE Outcome(accepted, <<bookChange>>, <<>>, <<>>)

\* the spot method dropping only updates with u < lastUpdateId
mapBookDepthUpdateStrictlyOlder(m, mapping, data, localTimestamp) ==
    LET lastUpdateId == mapping[data.s].lastUpdateId
    IN  ChangedMapBookDepthUpdate(m, mapping, data, localTimestamp,
            data.u < lastUpdateId,
            (data.U <= lastUpdateId + 1 /\ data.u >= lastUpdateId + 1) \/ lastUpdateId = -1,
            FALSE, FALSE, TRUE)

\* the spot method advancing lastUpdateId to the u of every update it accepts
mapBookDepthUpdateAdvancing(m, mapping, data, localTimestamp) ==
    LET lastUpdateId == mapping[data.s].lastUpdateId
    IN  ChangedMapBookDepthUpdate(m, mapping, data, localTimestamp,
            data.u <= lastUpdateId,
            (data.U <= lastUpdateId + 1 /\ data.u >= lastUpdateId + 1) \/ lastUpdateId = -1,
            FALSE, TRUE, TRUE)

\* the spot method asking U < lastUpdateId + 1 of the first update
mapBookDepthUpdateOffByOne(m, mapping, data, localTimestamp) ==
    LET lastUpdateId == mapping[data.s].lastUpdateId
    IN  ChangedMapBookDepthUpdate(m, mapping, data, localTimestamp,
            data.u <= lastUpdateId,
            (data.U < lastUpdateId + 1 /\ data.u >= lastUpdateId + 1) \/ lastUpdateId = -1,
            FALSE, FALSE, TRUE)

\* the futures method not setting validatedFirstUpdate when it tolerates a failure
futuresMapBookDepthUpdateForgetful(m, mapping, data, localTimestamp) ==
    LET lastUpdateId == mapping[data.s].lastUpdateId
    IN  ChangedMapBookDepthUpdate(m, mapping, data, localTimestamp,
            data.u < lastUpdateId,
            (data.U <= lastUpdateId /\ data.u >= lastUpdateId) \/ data.pu = -1,
            data.pu = -1, FALSE, FALSE)

\* BinanceBookChangeMapper.mapBookDepthUpdate
mapBookDepthUpdate(m, mapping, data, localTimestamp) ==
    LET depthContext == mapping[data.s]
        lastUpdateId == depthContext.lastUpdateId
        bookSnapshotIsEmpty == lastUpdateId = -1
        validated == [mapping EXCEPT ![data.s] = SetField(depthContext, "validatedFirstUpdate", TRUE)]
        bookChange == UpdateBookChange(data, m.exchange, FALSE, localTimestamp)
        message == OverlapMessage(data, lastUpdateId, m.exchange)
    IN  IF data.u <= lastUpdateId
        THEN Outcome(mapping, <<>>, <<>>, <<>>)
        ELSE IF ~Truthy(depthContext, "validatedFirstUpdate")
        THEN IF (data.U <= lastUpdateId + 1 /\ data.u >= lastUpdateId + 1) \/ bookSnapshotIsEmpty
             THEN Outcome(validated, <<bookChange>>, <<>>, <<>>)
             ELSE IF m.ignoreBookSnapshotOverlapError
                  THEN Outcome(validated, <<bookChange>>, <<>>, <<message>>)
                  ELSE Outcome(mapping, <<>>, <<message>>, <<>>)
        ELSE Outcome(mapping, <<bookChange>>, <<>>, <<>>)

\* the futures mapper without its override of mapBookDepthUpdate
futuresMapBookDepthUpdateAsSpot(m, mapping, data, localTimestamp) ==
    mapBookDepthUpdate(m, mapping, data, localTimestamp)

\* BinanceFuturesBookChangeMapper.mapBookDepthUpdate
futuresMapBookDepthUpdate(m, mapping, data, localTimestamp) ==
    LET depthContext == mapping[data.s]
        lastUpdateId == depthContext.lastUpdateId
        isSnapshot == data.pu = -1
        validated == [mapping EXCEPT ![data.s] = SetField(depthContext, "validatedFirstUpdate", TRUE)]
        bookChange == UpdateBookChange(data, m.exchange, isSnapshot, localTimestamp)
        message == OverlapMessage(data, lastUpdateId, m.exchange)
    IN  IF data.u < lastUpdateId
        THEN Outcome(mapping, <<>>, <<>>, <<>>)
        ELSE IF ~Truthy(depthContext, "validatedFirstUpdate")
        THEN IF (data.U <= lastUpdateId /\ data.u >= lastUpdateId) \/ isSnapshot
             THEN Outcome(validated, <<bookChange>>, <<>>, <<>>)
             ELSE IF m.ignoreBookSnapshotOverlapError
                  THEN Outcome(validated, <<bookChange>>, <<>>, <<message>>)
                  ELSE Outcome(mapping, <<>>, <<message>>, <<>>)
        ELSE Outcome(mapping, <<bookChange>>, <<>>, <<>>)

\* this.mapBookDepthUpdate(...): the method of the mapper's class
callMapBookDepthUpdate(m, mapping, data, localTimestamp) ==
    IF m.class = "BinanceFuturesBookChangeMapper"
    THEN futuresMapBookDepthUpdate(m, mapping, data, localTimestamp)
    ELSE mapBookDepthUpdate(m, mapping, data, localTimestamp)

----------------------------------------------------------------------------
(* BinanceBookChangeMapper.map, its generator drained *)

\* What a drained map call did: the mapping after it, the events it yielded in order,
\* the error that ended it (<<>> for none), what it gave to debug, and (observer) the
\* depth updates whose BookChange it yielded.
Drained(mapping, yielded, thrown, debugged, accepted) ==
    [mapping |-> mapping, yielded |-> yielded, thrown |-> thrown, debugged |-> debugged,
     accepted |-> accepted]

\* the loop of map over bufferedUpdates.items(), from the i-th item on
RECURSIVE replay(_, _, _, _, _)
replay(m, updates, i, localTimestamp, acc) ==
    IF i > Len(updates)
    THEN acc
    ELSE LET o == callMapBookDepthUpdate(m, acc.mapping, updates[i], localTimestamp)
         IN  IF o.thrown # <<>>
             THEN Drained(o.mapping, acc.yielded, o.thrown, acc.debugged, acc.accepted)
             ELSE replay(m, updates, i + 1, localTimestamp,
                         Drained(o.mapping, acc.yielded \o o.returned, <<>>,
                                 acc.debugged \o o.debugged,
                                 acc.accepted \o (IF o.returned # <<>> THEN <<updates[i]>> ELSE <<>>)))

\* the BookChange built for a depth snapshot
SnapshotBookChange(symbol, data, exchange, localTimestamp) ==
    [type |-> "book_change", symbol |-> symbol, exchange |-> exchange, isSnapshot |-> TRUE,
     bids |-> MapLevels(data.bids), asks |-> MapLevels(data.asks),
     timestamp |-> localTimestamp, localTimestamp |-> localTimestamp]

\* the snapshot branch of map, taken when no snapshot was processed yet
mapSnapshot(m, mapping, symbol, data, localTimestamp) ==
    LET symbolDepthInfo == mapping[symbol]
        bookChange == SnapshotBookChange(symbol, data, m.exchange, localTimestamp)
        marked == SetField(SetField(symbolDepthInfo, "lastUpdateId", data.lastUpdateId),
                           "snapshotProcessed", TRUE)
        r == replay(m, items(symbolDepthInfo.bufferedUpdates), 1, localTimestamp,
                    Drained([mapping EXCEPT ![symbol] = marked], <<bookChange>>, <<>>, <<>>, <<>>))
    IN  IF r.thrown # <<>>
        THEN r
        ELSE [r EXCEPT !.mapping[symbol] =
                 SetField(@, "bufferedUpdates", clear(r.mapping[symbol].bufferedUpdates))]

\* the live branch re-initialising the whole mapper when the update raises
mapLiveUpdateResetting(m, mapping, data, localTimestamp) ==
    LET o == callMapBookDepthUpdate(m, mapping, data, localTimestamp)
    IN  IF o.thrown # <<>>
        THEN Drained(<< >>, <<>>, o.thrown, <<>>, <<>>)
        ELSE Drained(o.mapping, o.returned, o.thrown, o.debugged,
                     IF o.returned # <<>> THEN <<data>> ELSE <<>>)

\* the live branch taking the symbol for validated once an update has raised
mapLiveUpdateValidatingOnError(m, mapping, data, localTimestamp) ==
    LET o == callMapBookDepthUpdate(m, mapping, data, localTimestamp)
    IN  IF o.thrown # <<>>
        THEN Drained([o.mapping EXCEPT ![data.s] = SetField(@, "validatedFirstUpdate", TRUE)],
                     <<>>, o.thrown, <<>>, <<>>)
        ELSE Drained(o.mapping, o.returned, o.thrown, o.debugged,
                     IF o.returned # <<>> THEN <<data>> ELSE <<>>)

\* the live branch going back to buffering for the symbol when the update raises
mapLiveUpdateRebuffering(m, mapping, data, localTimestamp) ==
    LET o == callMapBookDepthUpdate(m, mapping, data, localTimestamp)
    IN  IF o.thrown # <<>>
        THEN Drained([o.mapping EXCEPT ![data.s] = SetField(@, "snapshotProcessed", FALSE)],
                     <<>>, o.thrown, <<>>, <<>>)
        ELSE Drained(o.mapping, o.returned, o.thrown, o.debugged,
                     IF o.returned # <<>> THEN <<data>> ELSE <<>>)

\* the branch of map for a depth update that arrives after the snapshot
mapLiveUpdate(m, mapping, data, localTimestamp) ==
    LET o == callMapBookDepthUpdate(m, mapping, data, localTimestamp)
    IN  Drained(o.mapping, o.returned, o.thrown, o.debugged,
                IF o.returned # <<>> THEN <<data>> ELSE <<>>)

\* the buffering branch appending the update to the buffer of every symbol
mapBufferUpdateOfEverySymbol(mapping, symbol, data) ==
    Drained([sym \in DOMAIN mapping |->
                SetField(mapping[sym], "bufferedUpdates",
                         append(mapping[sym].bufferedUpdates, data, BufferCapacity))],
            <<>>, <<>>, <<>>, <<>>)

\* the branch of map for a depth update that arrives before the snapshot
mapBufferUpdate(mapping, symbol, data) ==
    Drained([mapping EXCEPT ![symbol] =
                SetField(@, "bufferedUpdates", append(@.bufferedUpdates, data, BufferCapacity))],
            <<>>, <<>>, <<>>, <<>>)

\* map without the check that drops a snapshot message after the first
mapWithoutSnapshotGuard(m, mapping0, message, localTimestamp) ==
    LET symbol == toUpperCase(message.stream[1])
        mapping == IF symbol \notin DOMAIN mapping0
                   THEN mapping0 @@ (symbol :> [bufferedUpdates |-> NewCircularBuffer])
                   ELSE mapping0
        snapshotAlreadyProcessed == Truthy(mapping[symbol], "snapshotProcessed")
    IN  IF "lastUpdateId" \in DOMAIN message.data
        THEN mapSnapshot(m, mapping, symbol, message.data, localTimestamp)
        ELSE IF snapshotAlreadyProcessed
             THEN mapLiveUpdate(m, mapping, message.data, localTimestamp)
             ELSE mapBufferUpdate(mapping, symbol, message.data)

\* BinanceBookChangeMapper.map, inherited by BinanceFuturesBookChangeMapper
map(m, mapping0, message, localTimestamp) ==
    LET symbol == toUpperCase(message.stream[1])
        mapping == IF symbol \notin DOMAIN mapping0
                   THEN mapping0 @@ (symbol :> [bufferedUpdates |-> NewCircularBuffer])
                   ELSE mapping0
        symbolDepthInfo == mapping[symbol]
        snapshotAlreadyProcessed == Truthy(symbolDepthInfo, "snapshotProcessed")
    IN  IF "lastUpdateId" \in DOMAIN message.data
        THEN IF snapshotAlreadyProcessed
             THEN Drained(mapping, <<>>, <<>>, <<>>, <<>>)
             ELSE mapSnapshot(m, mapping, symbol, message.data, localTimestamp)
        ELSE IF snapshotAlreadyProcessed
             THEN mapLiveUpdate(m, mapping, message.data, localTimestamp)
             ELSE mapBufferUpdate(mapping, symbol, message.data)

----------------------------------------------------------------------------
(* BinanceBookChangeMapper.map, its generator driven one next() at a time *)

\* The generator object map(message, localTimestamp) returns. at: where it stands:
\* "start" before its first next(), "afterSnapshot" suspended at the yield of the
\* snapshot BookChange, "inReplay" suspended at the yield inside the loop over
\* bufferedUpdates.items(), "afterUpdate" suspended at the yield of the live branch,
\* "done" once it returned, raised, or was closed. i: the loop variable of items().
NewSequence(message, localTimestamp) ==
    [message |-> message, localTimestamp |-> localTimestamp, at |-> "start", i |-> 0]

\* What one next() did: the mapping after it, the generator after it, the value it
\* yielded (<<>> when the generator finished), the error it raised (<<>> for none).
Stepped(mapping, sequence, yielded, thrown) ==
    [mapping |-> mapping, sequence |-> sequence, yielded |-> yielded, thrown |-> thrown]

\* the loop of map over bufferedUpdates.items() from its test i < _buffer.length on,
\* up to the next yield, and the clear() after the loop
RECURSIVE resumeReplay(_, _, _, _)
resumeReplay(m, mapping, g, i) ==
    LET symbol == toUpperCase(g.message.stream[1])
        cb == mapping[symbol].bufferedUpdates
    IN  IF i >= Len(cb._buffer)
        THEN Stepped([mapping EXCEPT ![symbol] = SetField(@, "bufferedUpdates", clear(cb))],
                     [g EXCEPT !.at = "done", !.i = i], <<>>, <<>>)
        ELSE LET update == cb._buffer[((cb._index + i) % Len(cb._buffer)) + 1]
                 o == callMapBookDepthUpdate(m, mapping, update, g.localTimestamp)
             IN  IF o.thrown # <<>>
                 THEN Stepped(o.mapping, [g EXCEPT !.at = "done", !.i = i], <<>>, o.thrown)
                 ELSE IF o.returned # <<>>
                      THEN Stepped(o.mapping, [g EXCEPT !.at = "inReplay", !.i = i + 1],
                                   o.returned, <<>>)
                      ELSE resumeReplay(m, o.mapping, g, i + 1)

\* the same, with the symbol marked as having its snapshot before the BookChange is
\* yielded instead of after
nextFromStartMarking(m, mapping0, g) ==
    LET symbol == toUpperCase(g.message.stream[1])
        mapping == IF symbol \notin DOMAIN mapping0
                   THEN mapping0 @@ (symbol :> [bufferedUpdates |-> NewCircularBuffer])
                   ELSE mapping0
        symbolDepthInfo == mapping[symbol]
        snapshotAlreadyProcessed == Truthy(symbolDepthInfo, "snapshotProcessed")
        finished == [g EXCEPT !.at = "done"]
    IN  IF "lastUpdateId" \in DOMAIN g.message.data
        THEN IF snapshotAlreadyProcessed
             THEN Stepped(mapping, finished, <<>>, <<>>)
             ELSE Stepped([mapping EXCEPT ![symbol] =
                               SetField(SetField(@, "lastUpdateId", g.message.data.lastUpdateId),
                                        "snapshotProcessed", TRUE)],
                          [g EXCEPT !.at = "afterSnapshot"],
                          <<SnapshotBookChange(symbol, g.message.data, m.exchange,
                                               g.localTimestamp)>>, <<>>)
        ELSE IF snapshotAlreadyProcessed
             THEN LET o == callMapBookDepthUpdate(m, mapping, g.message.data, g.localTimestamp)
                  IN  IF o.thrown # <<>>
                      THEN Stepped(o.mapping, finished, <<>>, o.thrown)
                      ELSE IF o.returned # <<>>
                           THEN Stepped(o.mapping, [g EXCEPT !.at = "afterUpdate"],
                                        o.returned, <<>>)
                           ELSE Stepped(o.mapping, finished, <<>>, <<>>)
             ELSE Stepped(mapBufferUpdate(mapping, symbol, g.message.data).mapping,
                          finished, <<>>, <<>>)

\* the statements of map from its first line to its first yield or its return
nextFromStart(m, mapping0, g) ==
    LET symbol == toUpperCase(g.message.stream[1])
        mapping == IF symbol \notin DOMAIN mapping0
                   THEN mapping0 @@ (symbol :> [bufferedUpdates |-> NewCircularBuffer])
                   ELSE mapping0
        symbolDepthInfo == mapping[symbol]
        snapshotAlreadyProcessed == Truthy(symbolDepthInfo, "snapshotProcessed")
        finished == [g EXCEPT !.at = "done"]
    IN  IF "lastUpdateId" \in DOMAIN g.message.data
        THEN IF snapshotAlreadyProcessed
             THEN Stepped(mapping, finished, <<>>, <<>>)
             ELSE Stepped(mapping, [g EXCEPT !.at = "afterSnapshot"],
                          <<SnapshotBookChange(symbol, g.message.data, m.exchange,
                                               g.localTimestamp)>>, <<>>)
        ELSE IF snapshotAlreadyProcessed
             THEN LET o == callMapBookDepthUpdate(m, mapping, g.message.data, g.localTimestamp)
                  IN  IF o.thrown # <<>>
                      THEN Stepped(o.mapping, finished, <<>>, o.thrown)
                      ELSE IF o.returned # <<>>
                           THEN Stepped(o.mapping, [g EXCEPT !.at = "afterUpdate"],
                                        o.returned, <<>>)
                           ELSE Stepped(o.mapping, finished, <<>>, <<>>)
             ELSE Stepped(mapBufferUpdate(mapping, symbol, g.message.data).mapping,
                          finished, <<>>, <<>>)

\* the statements of map after the yield of the snapshot BookChange
nextAfterSnapshot(m, mapping, g) ==
    LET symbol == toUpperCase(g.message.stream[1])
        marked == SetField(SetField(mapping[symbol], "lastUpdateId",
                                    g.message.data.lastUpdateId),
                           "snapshotProcessed", TRUE)
    IN  resumeReplay(m, [mapping EXCEPT ![symbol] = marked], g, 0)

\* generator.next() on a map generator that is not done
next(m, mapping, g) ==
    IF g.at = "start" THEN nextFromStart(m, mapping, g)
    ELSE IF g.at = "afterSnapshot" THEN nextAfterSnapshot(m, mapping, g)
    ELSE IF g.at = "inReplay" THEN resumeReplay(m, mapping, g, g.i)
    ELSE Stepped(mapping, [g EXCEPT !.at = "done"], <<>>, <<>>)

\* generator.return() on a suspended map generator: map has no finally block, the
\* generator is closed and nothing else happens
return(g) == [g EXCEPT !.at = "done"]

----------------------------------------------------------------------------
(* The registry: the three tables of factories and the normalize functions *)

ONE_SEC_IN_MS == 1000

THREE_MINUTES_IN_MS == 3 * 60 * ONE_SEC_IN_MS

isRealTime(date, clock) == date + THREE_MINUTES_IN_MS > clock

BinanceSpotExchanges == {"binance", "binance-us", "binance-jersey"}

BinanceExchanges == BinanceSpotExchanges \cup {"binance-futures"}

\* new BinanceBookChangeMapper(exchange, ignoreBookSnapshotOverlapError)
NewBinanceBookChangeMapper(exchange, ignoreBookSnapshotOverlapError) ==
    [class |-> "BinanceBookChangeMapper", exchange |-> exchange,
     ignoreBookSnapshotOverlapError |-> ignoreBookSnapshotOverlapError]

\* new BinanceFuturesBookChangeMapper(ignoreBookSnapshotOverlapError)
NewBinanceFuturesBookChangeMapper(ignoreBookSnapshotOverlapError) ==
    [class |-> "BinanceFuturesBookChangeMapper", exchange |-> "binance-futures",
     ignoreBookSnapshotOverlapError |-> ignoreBookSnapshotOverlapError]

\* a mapper object built once by its module and imported by name
Imported(name) == [imported |-> name]

\* new Class(...args), for the classes whose state is not read here
New(class, args) == [class |-> class, args |-> args]

\* the keys of tradesMappers
tradesMappersKeys ==
    {"bitmex", "binance", "binance-us", "binance-jersey", "binance-futures", "binance-dex",
     "bitfinex", "bitfinex-derivatives", "bitfinex-alts", "bitflyer", "bitstamp", "coinbase",
     "cryptofacilities", "deribit", "ftx", "gemini", "kraken", "okex", "okex-futures",
     "okex-swap", "okex-options", "huobi", "huobi-dm", "bybit", "okcoin", "hitbtc"}

\* tradesMappers[exchange](), for a key of the table
tradesMappers(exchange) ==
    CASE exchange = "bitmex" -> Imported("bitmexTradesMapper")
      [] exchange \in BinanceExchanges -> New("BinanceTradesMapper", <<exchange>>)
      [] exchange = "binance-dex" -> Imported("binanceDexTradesMapper")
      [] exchange \in {"bitfinex", "bitfinex-derivatives", "bitfinex-alts"} ->
             New("BitfinexTradesMapper", <<exchange>>)
      [] exchange = "bitflyer" -> Imported("bitflyerTradesMapper")
      [] exchange = "bitstamp" -> Imported("bitstampTradesMapper")
      [] exchange = "coinbase" -> Imported("coinbaseTradesMapper")
      [] exchange = "cryptofacilities" -> Imported("cryptofacilitiesTradesMapper")
      [] exchange = "deribit" -> Imported("deribitTradesMapper")
      [] exchange = "ftx" -> Imported("ftxTradesMapper")
      [] exchange = "gemini" -> Imported("geminiTradesMapper")
      [] exchange = "kraken" -> Imported("krakenTradesMapper")
      [] exchange = "okex" -> New("OkexTradesMapper", <<"okex", "spot">>)
      [] exchange = "okex-futures" -> New("OkexTradesMapper", <<"okex-futures", "futures">>)
      [] exchange = "okex-swap" -> New("OkexTradesMapper", <<"okex-swap", "swap">>)
      [] exchange = "okex-options" -> New("OkexTradesMapper", <<"okex-options", "option">>)
      [] exchange \in {"huobi", "huobi-dm"} -> New("HuobiTradesMapper", <<exchange>>)
      [] exchange = "bybit" -> New("BybitTradesMapper", <<"bybit">>)
      [] exchange = "okcoin" -> New("OkexTradesMapper", <<"okcoin", "spot">>)
      [] exchange = "hitbtc" -> Imported("hitBtcTradesMapper")

\* the keys of bookChangeMappers, without its last one
bookChangeMappersKeysWithoutHitbtc ==
    {"bitmex", "binance", "binance-us", "binance-jersey", "binance-futures", "binance-dex",
     "bitfinex", "bitfinex-derivatives", "bitfinex-alts", "bitflyer", "bitstamp", "coinbase",
     "cryptofacilities", "deribit", "ftx", "gemini", "kraken", "okex", "okex-futures",
     "okex-swap", "okex-options", "huobi", "huobi-dm", "bybit", "okcoin"}

\* the keys of bookChangeMappers
bookChangeMappersKeys ==
    {"bitmex", "binance", "binance-us", "binance-jersey", "binance-futures", "binance-dex",
     "bitfinex", "bitfinex-derivatives", "bitfinex-alts", "bitflyer", "bitstamp", "coinbase",
     "cryptofacilities", "deribit", "ftx", "gemini", "kraken", "okex", "okex-futures",
     "okex-swap", "okex-options", "huobi", "huobi-dm", "bybit", "okcoin", "hitbtc"}

\* the Binance entries passing isRealTime(localTimestamp) itself as the flag
bookChangeMappersStrictInReplay(exchange, localTimestamp, clock) ==
    IF exchange = "binance-futures"
    THEN NewBinanceFuturesBookChangeMapper(isRealTime(localTimestamp, clock))
    ELSE NewBinanceBookChangeMapper(exchange, isRealTime(localTimestamp, clock))

\* bookChangeMappers[exchange](localTimestamp), for a key of the table. The date that the
\* okex and bybit entries compare localTimestamp with lies after every timestamp used here
\* (all of them are at most Now), so the comparison is false.
bookChangeMappers(exchange, localTimestamp, clock) ==
    CASE exchange = "bitmex" -> New("BitmexBookChangeMapper", <<>>)
      [] exchange \in BinanceSpotExchanges ->
             NewBinanceBookChangeMapper(exchange, isRealTime(localTimestamp, clock) = FALSE)
      [] exchange = "binance-futures" ->
             NewBinanceFuturesBookChangeMapper(isRealTime(localTimestamp, clock) = FALSE)
      [] exchange = "binance-dex" -> Imported("binanceDexBookChangeMapper")
      [] exchange \in {"bitfinex", "bitfinex-derivatives", "bitfinex-alts"} ->
             New("BitfinexBookChangeMapper", <<exchange>>)
      [] exchange = "bitflyer" -> Imported("bitflyerBookChangeMapper")
      [] exchange = "bitstamp" -> New("BitstampBookChangeMapper", <<>>)
      [] exchange = "coinbase" -> Imported("coinbaseBookChangMapper")
      [] exchange = "cryptofacilities" -> Imported("cryptofacilitiesBookChangeMapper")
      [] exchange = "deribit" -> Imported("deribitBookChangeMapper")
      [] exchange = "ftx" -> Imported("ftxBookChangeMapper")
      [] exchange = "gemini" -> Imported("geminiBookChangeMapper")
      [] exchange = "kraken" -> Imported("krakenBookChangeMapper")
      [] exchange = "okex" -> New("OkexBookChangeMapper", <<"okex", "spot", FALSE>>)
      [] exchange = "okex-futures" -> New("OkexBookChangeMapper", <<"okex-futures", "futures", FALSE>>)
      [] exchange = "okex-swap" -> New("OkexBookChangeMapper", <<"okex-swap", "swap", FALSE>>)
      [] exchange = "okex-options" -> New("OkexBookChangeMapper", <<"okex-options", "option", FALSE>>)
      [] exchange \in {"huobi", "huobi-dm"} -> New("HuobiBookChangeMapper", <<exchange>>)
      [] exchange = "bybit" -> New("BybitBookChangeMapper", <<"bybit", FALSE>>)
      [] exchange = "okcoin" -> New("OkexBookChangeMapper", <<"okcoin", "spot", FALSE>>)
      [] exchange = "hitbtc" -> Imported("hitBtcBookChangeMapper")

\* the keys of derivativeTickersMappers
derivativeTickersMappersKeys ==
    {"bitmex", "binance-futures", "bitfinex-derivatives", "cryptofacilities", "deribit",
     "okex-futures", "okex-swap", "bybit"}

\* derivativeTickersMappers[exchange](), for a key of the table
derivativeTickersMappers(exchange) ==
    CASE exchange = "bitmex" -> New("BitmexDerivativeTickerMapper", <<>>)
      [] exchange = "binance-futures" -> New("BinanceFuturesDerivativeTickerMapper", <<>>)
      [] exchange = "bitfinex-derivatives" -> New("BitfinexDerivativeTickerMapper", <<>>)
      [] exchange = "cryptofacilities" -> New("CryptofacilitiesDerivativeTickerMapper", <<>>)
      [] exchange = "deribit" -> New("DeribitDerivativeTickerMapper", <<>>)
      [] exchange \in {"okex-futures", "okex-swap"} -> New("OkexDerivativeTickerMapper", <<exchange>>)
      [] exchange = "bybit" -> New("BybitDerivativeTickerMapper", <<>>)

\* what a normalize function does: it returns the mapper its factory gave, or throws
Returns(given) == [returned |-> <<given>>, thrown |-> <<>>]
Throws(error) == [returned |-> <<>>, thrown |-> <<error>>]

\* new Error(`${operation}: ${exchange} not supported`), as the parts of its message
NotSupported(operation, exchange) == <<operation, ": ", exchange, " not supported">>

\* normalizeTrades(exchange, _localTimestamp)
normalizeTrades(exchange, localTimestamp) ==
    IF exchange \notin tradesMappersKeys
    THEN Throws(NotSupported("normalizeTrades", exchange))
    ELSE Returns(tradesMappers(exchange))

\* normalizeBookChanges(exchange, localTimestamp)
normalizeBookChanges(exchange, localTimestamp, clock) ==
    IF exchange \notin bookChangeMappersKeys
    THEN Throws(NotSupported("normalizeBookChanges", exchange))
    ELSE Returns(bookChangeMappers(exchange, localTimestamp, clock))

\* normalizeDerivativeTickers whose error names another operation
normalizeDerivativeTickersNamingTrades(exchange, localTimestamp) ==
    IF exchange \notin derivativeTickersMappersKeys
    THEN Throws(NotSupported("normalizeTrades", exchange))
    ELSE Returns(derivativeTickersMappers(exchange))

\* normalizeDerivativeTickers(exchange, _localTimestamp)
normalizeDerivativeTickers(exchange, localTimestamp) ==
    IF exchange \notin derivativeTickersMappersKeys
    THEN Throws(NotSupported("normalizeDerivativeTickers", exchange))
    ELSE Returns(derivativeTickersMappers(exchange))

----------------------------------------------------------------------------
(* PendingTickerInfoHelper and its PendingTickerInfo records (module ./mapper), as the    *)
(* specification describes them: a record per symbol whose fields are unknown (<<>>)      *)
(* until set, and the set of its fields that changed since the last snapshot              *)

NewPendingTickerInfoHelper == << >>

NewPendingTickerInfo(symbol, exchange) ==
    [symbol |-> symbol, exchange |-> exchange, fundingRate |-> <<>>, markPrice |-> <<>>,
     lastPrice |-> <<>>, openInterest |-> <<>>, timestamp |-> <<>>, dirty |-> {}]

\* getPendingTickerInfo(symbol, exchange): the helper once the symbol's record exists
getPendingTickerInfo(helper, symbol, exchange) ==
    IF symbol \in DOMAIN helper THEN helper
    ELSE helper @@ (symbol :> NewPendingTickerInfo(symbol, exchange))

\* an update-field operation: sets the value and marks the field only if the value differs
updateField(info, field, value) ==
    IF info[field] = <<value>> THEN info
    ELSE [info EXCEPT ![field] = <<value>>, !.dirty = @ \cup {field}]

updateFundingRate(info, fundingRate) == updateField(info, "fundingRate", fundingRate)
updateMarkPrice(info, markPrice) == updateField(info, "markPrice", markPrice)
updateLastPrice(info, lastPrice) == updateField(info, "lastPrice", lastPrice)
updateTimestamp(info, timestamp) == updateField(info, "timestamp", timestamp)

hasChanged(info) == info.dirty # {}

\* getSnapshot(localTimestamp): the DerivativeTicker it returns, and the record it leaves
getSnapshot(info, localTimestamp) ==
    [type |-> "derivative_ticker", symbol |-> info.symbol, exchange |-> info.exchange,
     lastPrice |-> info.lastPrice, openInterest |-> info.openInterest,
     fundingRate |-> info.fundingRate, markPrice |-> info.markPrice,
     timestamp |-> info.timestamp, localTimestamp |-> localTimestamp]

afterGetSnapshot(info) == [info EXCEPT !.dirty = {}]

----------------------------------------------------------------------------
(* BinanceFuturesDerivativeTickerMapper.map, its generator drained *)

\* the record of the message's symbol after the updates that map makes, where a mark price
\* message is taken to report the last price too when markAsLast is set
updatedTickerInfo(info, data, markAsLast) ==
    LET marked == IF "r" \in DOMAIN data
                  THEN LET rated == updateMarkPrice(updateFundingRate(info, Number(data.r)),
                                                    Number(data.p))
                       IN  updateTimestamp(IF markAsLast
                                           THEN updateLastPrice(rated, Number(data.p))
                                           ELSE rated,
                                           data.E)
                  ELSE info
    IN  IF "c" \in DOMAIN data
        THEN updateTimestamp(updateLastPrice(marked, Number(data.c)), data.E)
        ELSE marked

\* map with the updates and with the condition under which it yields the snapshot
ChangedDerivativeTickerMap(helper, message, localTimestamp, markAsLast, always) ==
    LET symbol == message.data.s
        found == getPendingTickerInfo(helper, symbol, "binance-futures")
        pendingTickerInfo == updatedTickerInfo(found[symbol], message.data, markAsLast)
    IN  IF always \/ hasChanged(pendingTickerInfo)
        THEN [helper |-> [found EXCEPT ![symbol] = afterGetSnapshot(pendingTickerInfo)],
              yielded |-> <<getSnapshot(pendingTickerInfo, localTimestamp)>>]
        ELSE [helper |-> [found EXCEPT ![symbol] = pendingTickerInfo], yielded |-> <<>>]

\* map yielding the snapshot whether or not anything changed
derivativeTickerMapAlwaysYielding(helper, message, localTimestamp) ==
    ChangedDerivativeTickerMap(helper, message, localTimestamp, FALSE, TRUE)

\* map taking the mark price for the last price as well
derivativeTickerMapMarkAsLast(helper, message, localTimestamp) ==
    ChangedDerivativeTickerMap(helper, message, localTimestamp, TRUE, FALSE)

\* map(message, localTimestamp): the helper after the call and the tickers yielded
derivativeTickerMap(helper, message, localTimestamp) ==
    LET symbol == message.data.s
        found == getPendingTickerInfo(helper, symbol, "binance-futures")
        afterMarkPrice ==
            IF "r" \in DOMAIN message.data
            THEN updateTimestamp(
                     updateMarkPrice(updateFundingRate(found[symbol], Number(message.data.r)),
                                     Number(message.data.p)),
                     message.data.E)
            ELSE found[symbol]
        pendingTickerInfo ==
            IF "c" \in DOMAIN message.data
            THEN updateTimestamp(updateLastPrice(afterMarkPrice, Number(message.data.c)),
                                 message.data.E)
            ELSE afterMarkPrice
    IN  IF hasChanged(pendingTickerInfo)
        THEN [helper |-> [found EXCEPT ![symbol] = afterGetSnapshot(pendingTickerInfo)],
              yielded |-> <<getSnapshot(pendingTickerInfo, localTimestamp)>>]
        ELSE [helper |-> [found EXCEPT ![symbol] = pendingTickerInfo], yielded |-> <<>>]

----------------------------------------------------------------------------
(* The state machine *)

\* reference timestamps offered: the last historical one and the first real-time one
ReferenceTimestamps == {Now - THREE_MINUTES_IN_MS, Now - THREE_MINUTES_IN_MS + 1}

\* the messages a feed of the mapper's exchange delivers
Messages(m) == IF m.class = "BinanceFuturesBookChangeMapper" THEN FuturesMessages ELSE SpotMessages

Symbols == {toUpperCase(st) : st \in Streams}

SymbolOf(message) == toUpperCase(message.stream[1])

IsSnapshotMessage(message) == "lastUpdateId" \in DOMAIN message.data

\* received: the depth updates mapped before the symbol's snapshot; accepted: the depth
\* updates whose BookChange was yielded; emitted, snapshotEvents: how many BookChanges were
\* yielded, and how many of them with isSnapshot=true; applied: how many snapshot messages
\* yielded their BookChange; raised: how many calls ended in an error
NewHistory == [received |-> <<>>, accepted |-> <<>>, emitted |-> 0, snapshotEvents |-> 0,
               applied |-> 0, raised |-> 0]

Init ==
    /\ now = Now
    /\ referenceTimestamp \in ReferenceTimestamps
    /\ \E exchange \in BinanceExchanges :
           mapper = normalizeBookChanges(exchange, referenceTimestamp, now).returned[1]
    /\ symbolToDepthInfoMapping = << >>
    /\ calls = 0
    /\ lastCall = << >>
    /\ history = [s \in Symbols |-> NewHistory]
    /\ unfailed = << >>
    /\ registry = << >>
    /\ ring = << >>
    /\ tickers = << >>
    /\ sequences = << >>

NumberOfSnapshotEvents(events) == Cardinality({i \in 1..Len(events) : events[i].isSnapshot})

\* the observer's record of one symbol, after a drained call for it
Observe(h, before, message, r) ==
    LET sym == SymbolOf(message)
        hadSnapshot == sym \in DOMAIN before /\ Truthy(before[sym], "snapshotProcessed")
    IN  [received |-> IF ~IsSnapshotMessage(message) /\ ~hadSnapshot
                      THEN Append(h.received, message.data) ELSE h.received,
         accepted |-> h.accepted \o r.accepted,
         emitted  |-> h.emitted + Len(r.yielded),
         snapshotEvents |-> h.snapshotEvents + NumberOfSnapshotEvents(r.yielded),
         applied  |-> IF IsSnapshotMessage(message) /\ r.yielded # <<>>
                      THEN h.applied + 1 ELSE h.applied,
         raised   |-> IF r.thrown # <<>> THEN h.raised + 1 ELSE h.raised]

\* one map call, drained
Map(message) ==
    /\ calls < MaxCalls
    /\ LET localTimestamp == referenceTimestamp + calls + 1
           r == map(mapper, symbolToDepthInfoMapping, message, localTimestamp)
           twin == map(mapper, unfailed, message, localTimestamp)
       IN  /\ symbolToDepthInfoMapping' = r.mapping
           /\ lastCall' = <<[message |-> message, localTimestamp |-> localTimestamp,
                             before |-> symbolToDepthInfoMapping,
                             yielded |-> r.yielded, thrown |-> r.thrown,
                             debugged |-> r.debugged, accepted |-> r.accepted,
                             twinYielded |-> twin.yielded]>>
           /\ unfailed' = IF r.thrown # <<>> THEN unfailed ELSE twin.mapping
           /\ history' = [history EXCEPT ![SymbolOf(message)] =
                              Observe(@, symbolToDepthInfoMapping, message, r)]
    /\ calls' = calls + 1
    /\ UNCHANGED <<now, referenceTimestamp, mapper, registry, ring, tickers, sequences>>

MapDepthSnapshot == \E message \in Messages(mapper) : IsSnapshotMessage(message) /\ Map(message)

MapDepthUpdate == \E message \in Messages(mapper) : ~IsSnapshotMessage(message) /\ Map(message)

Next == MapDepthSnapshot \/ MapDepthUpdate

Spec == Init /\ [][Next]_vars

----------------------------------------------------------------------------
(* The registry's state machine: one exchange identifier is asked for mappers, and the  *)
(* Binance book-change mappers handed out are fed messages                              *)

\* number of normalize calls in a run (one of each kind, or two of one kind and one of
\* another), and of map calls on the mappers handed out
MaxNormalizeCalls == 3
MaxRegistryMaps == 2

\* the identifiers asked for: every key of the tables, and an exchange that none of them has
ExchangeIds ==
    tradesMappersKeys \cup bookChangeMappersKeys \cup derivativeTickersMappersKeys \cup {"poloniex"}

\* the messages fed to a mapper that was handed out
RegistryMessages(m) ==
    IF m.class = "BinanceFuturesBookChangeMapper"
    THEN {SnapshotMessage("btcusdt", 4), FuturesDepthMessage("btcusdt", <<5, 6>>, 4)}
    ELSE {SnapshotMessage("btcusdt", 4), DepthMessage("btcusdt", <<5, 6>>)}

\* the classes of part_000 that declare the field symbolToDepthInfoMapping = {}
HasDepthInfoMapping(given) ==
    given.class \in {"BinanceBookChangeMapper", "BinanceFuturesBookChangeMapper"}

\* the field initializer symbolToDepthInfoMapping = {} creating one more object of the heap,
\* and the same field pointing at one object of the module
sharedSymbolToDepthInfoMapping(stores) == 1
newSymbolToDepthInfoMapping(stores) == Len(stores) + 1

\* the object a constructor call leaves on the heap
construct(given, stores) ==
    IF HasDepthInfoMapping(given)
    THEN [mapper |-> given, symbolToDepthInfoMapping |-> newSymbolToDepthInfoMapping(stores)]
    ELSE [mapper |-> given]

\* the heap as a call found it
Heap(r) == [objects |-> r.objects, stores |-> r.stores, handed |-> r.handed]

NewRegistry(exchange) ==
    [exchange |-> exchange, objects |-> <<>>, stores |-> <<>>, handed |-> <<>>,
     returnedFor |-> {}, thrownFor |-> {}, calls |-> 0, maps |-> 0, last |-> <<>>]

InitRegistry ==
    /\ now = Now
    /\ referenceTimestamp = Now
    /\ mapper = << >>
    /\ symbolToDepthInfoMapping = << >>
    /\ calls = 0
    /\ lastCall = << >>
    /\ history = << >>
    /\ unfailed = << >>
    /\ \E exchange \in ExchangeIds : registry = NewRegistry(exchange)
    /\ ring = << >>
    /\ tickers = << >>
    /\ sequences = << >>

\* one call of a normalize function with its outcome: what it threw, or the reference it returned,
\* to a module's own mapper or to the object just constructed
Normalize(operation, localTimestamp, outcome) ==
    /\ registry.calls < MaxNormalizeCalls
    /\ LET called == [kind |-> "normalize", operation |-> operation,
                      exchange |-> registry.exchange, localTimestamp |-> localTimestamp,
                      before |-> Heap(registry)]
           counted == [registry EXCEPT !.calls = @ + 1]
       IN  IF outcome.thrown # <<>>
           THEN registry' = [counted EXCEPT !.thrownFor = @ \cup {operation},
                                 !.last = <<called @@ [thrown |-> outcome.thrown, returned |-> <<>>]>>]
           ELSE LET given == outcome.returned[1]
                    object == construct(given, registry.stores)
                    reference == IF "imported" \in DOMAIN given THEN given
                                 ELSE [object |-> Len(registry.objects) + 1]
                IN  registry' =
                        [counted EXCEPT
                            !.objects = IF "imported" \in DOMAIN given THEN @ ELSE Append(@, object),
                            !.stores = IF "imported" \in DOMAIN given \/ ~HasDepthInfoMapping(given)
                                          \/ object.symbolToDepthInfoMapping <= Len(@)
                                       THEN @ ELSE Append(@, <<>>),
                            !.handed = Append(@, [operation |-> operation, reference |-> reference]),
                            !.returnedFor = @ \cup {operation},
                            !.last = <<called @@ [thrown |-> <<>>, returned |-> <<reference>>]>>]
    /\ UNCHANGED <<now, referenceTimestamp, mapper, symbolToDepthInfoMapping, calls, lastCall,
                   history, unfailed, ring, tickers, sequences>>

NormalizeTrades ==
    Normalize("normalizeTrades", Now, normalizeTrades(registry.exchange, Now))

NormalizeBookChanges ==
    \E localTimestamp \in ReferenceTimestamps :
        Normalize("normalizeBookChanges", localTimestamp,
                  normalizeBookChanges(registry.exchange, localTimestamp, now))

NormalizeDerivativeTickers ==
    Normalize("normalizeDerivativeTickers", Now, normalizeDerivativeTickers(registry.exchange, Now))

\* one map call, drained, on a Binance book-change mapper that was handed out
RegistryMap ==
    /\ registry.maps < MaxRegistryMaps
    /\ \E i \in 1..Len(registry.objects) :
           /\ "symbolToDepthInfoMapping" \in DOMAIN registry.objects[i]
           /\ \E message \in RegistryMessages(registry.objects[i].mapper) :
                  LET object == registry.objects[i]
                      r == map(object.mapper, registry.stores[object.symbolToDepthInfoMapping],
                               message, Now + registry.maps + 1)
                  IN  registry' =
                          [registry EXCEPT
                              !.stores[object.symbolToDepthInfoMapping] = r.mapping,
                              !.maps = @ + 1,
                              !.last = <<[kind |-> "map", object |-> i, message |-> message,
                                          before |-> Heap(registry), yielded |-> r.yielded]>>]
    /\ UNCHANGED <<now, referenceTimestamp, mapper, symbolToDepthInfoMapping, calls, lastCall,
                   history, unfailed, ring, tickers, sequences>>

NextRegistry ==
    NormalizeTrades \/ NormalizeBookChanges \/ NormalizeDerivativeTickers \/ RegistryMap

SpecRegistry == InitRegistry /\ [][NextRegistry]_vars

----------------------------------------------------------------------------
(* The ring buffer's state machine: one CircularBuffer, appended to, read and cleared *)

\* the capacities a buffer is constructed with, and the number of calls made on it
MaxCapacity == 3
MaxRingCalls == 6

\* the values appended
RingValues == {"a", "b", "c"}

\* buffer: the CircularBuffer; appended: the values appended since construction or the last
\* clear (observer); last: the last call, the buffer before it and what it gave
NewRing(bufferSize) ==
    [_bufferSize |-> bufferSize, buffer |-> NewCircularBuffer, appended |-> <<>>, calls |-> 0,
     last |-> <<>>]

InitRing ==
    /\ now = Now
    /\ referenceTimestamp = Now
    /\ mapper = << >>
    /\ symbolToDepthInfoMapping = << >>
    /\ calls = 0
    /\ lastCall = << >>
    /\ history = << >>
    /\ unfailed = << >>
    /\ registry = << >>
    /\ \E bufferSize \in 1..MaxCapacity : ring = NewRing(bufferSize)
    /\ tickers = << >>
    /\ sequences = << >>

RingCall(buffer, appended, called) ==
    /\ ring.calls < MaxRingCalls
    /\ ring' = [ring EXCEPT !.buffer = buffer, !.appended = appended, !.calls = @ + 1,
                            !.last = <<called @@ [before |-> ring.buffer,
                                                  appendedBefore |-> ring.appended]>>]
    /\ UNCHANGED <<now, referenceTimestamp, mapper, symbolToDepthInfoMapping, calls, lastCall,
                   history, unfailed, registry, tickers, sequences>>

\* append(value)
RingAppend ==
    \E value \in RingValues :
        RingCall(append(ring.buffer, value, ring._bufferSize), Append(ring.appended, value),
                 [call |-> "append", value |-> value,
                  returned |-> appendReturn(ring.buffer, value, ring._bufferSize)])

\* items(), drained: the generator assigns no field
RingItems ==
    RingCall(ring.buffer, ring.appended, [call |-> "items", yielded |-> items(ring.buffer)])

\* clear()
RingClear == RingCall(clear(ring.buffer), <<>>, [call |-> "clear"])

NextRing == RingAppend \/ RingItems \/ RingClear

SpecRing == InitRing /\ [][NextRing]_vars

----------------------------------------------------------------------------
(* The derivative-ticker mapper's state machine: one BinanceFuturesDerivativeTickerMapper *)
(* given markPrice and ticker messages                                                    *)

\* number of map calls in a run
MaxTickerCalls == 3

\* what the messages carry: event times, and funding rates, mark prices and last prices as
\* the decimal strings sent (a rate and a last price of zero among them)
EventTimes == {1, 2}
FundingRates == {"0", "1"}
MarkPrices == {"5", "6"}
LastPrices == {"0", "6"}

\* BinanceResponse<BinanceFuturesMarkPriceData>
MarkPriceMessage(stream, E, p, r) ==
    [stream |-> <<stream, "markPrice">>, data |-> [s |-> toUpperCase(stream), E |-> E, p |-> p, r |-> r]]

\* BinanceResponse<BinanceFuturesTickerData>
TickerMessage(stream, E, c) ==
    [stream |-> <<stream, "ticker">>, data |-> [E |-> E, s |-> toUpperCase(stream), c |-> c]]

MarkPriceMessages ==
    {MarkPriceMessage(st, E, p, r) : st \in Streams, E \in EventTimes, p \in MarkPrices, r \in FundingRates}

TickerMessages == {TickerMessage(st, E, c) : st \in Streams, E \in EventTimes, c \in LastPrices}

\* mapper: the mapper normalizeDerivativeTickers returned; pendingTickerInfoHelper: its
\* field; reported: symbol -> the fields that some message has set (observer); last: the
\* last map call, the helper before it and what it yielded
InitTickers ==
    /\ now = Now
    /\ referenceTimestamp = Now
    /\ mapper = << >>
    /\ symbolToDepthInfoMapping = << >>
    /\ calls = 0
    /\ lastCall = << >>
    /\ history = << >>
    /\ unfailed = << >>
    /\ registry = << >>
    /\ ring = << >>
    /\ tickers = [mapper |-> normalizeDerivativeTickers("binance-futures", Now).returned[1],
                  pendingTickerInfoHelper |-> NewPendingTickerInfoHelper,
                  reported |-> [sym \in Symbols |-> {}], calls |-> 0, last |-> <<>>]
    /\ sequences = << >>

\* the fields a message sets
Reports(message) ==
    (IF "r" \in DOMAIN message.data THEN {"fundingRate", "markPrice", "timestamp"} ELSE {}) \cup
    (IF "c" \in DOMAIN message.data THEN {"lastPrice", "timestamp"} ELSE {})

\* one map call, drained
TickerMap(message) ==
    /\ tickers.calls < MaxTickerCalls
    /\ LET localTimestamp == Now + tickers.calls + 1
           r == derivativeTickerMap(tickers.pendingTickerInfoHelper, message, localTimestamp)
       IN  tickers' = [tickers EXCEPT
                          !.pendingTickerInfoHelper = r.helper,
                          !.reported[message.data.s] = @ \cup Reports(message),
                          !.calls = @ + 1,
                          !.last = <<[message |-> message, localTimestamp |-> localTimestamp,
                                      before |-> tickers.pendingTickerInfoHelper,
                                      reportedBefore |-> tickers.reported,
                                      yielded |-> r.yielded]>>]
    /\ UNCHANGED <<now, referenceTimestamp, mapper, symbolToDepthInfoMapping, calls, lastCall,
                   history, unfailed, registry, ring, sequences>>

MapMarkPrice == \E message \in MarkPriceMessages : TickerMap(message)

MapTicker == \E message \in TickerMessages : TickerMap(message)

NextTickers == MapMarkPrice \/ MapTicker

SpecTickers == InitTickers /\ [][NextTickers]_vars

-----------------------------------------------------------------------------
(* A book-change mapper whose map generators are driven one next() at a time, in any  *)
(* order, and may be closed before they are drained                                    *)

\* number of map calls in a run
MaxInterleavedCalls == 2

\* the depth messages of one symbol
InterleavedMessages(m) == {message \in Messages(m) : SymbolOf(message) = "BTCUSDT"}

\* generators: the map generators in the order map was called; and, kept by the
\* observer: yielded, the BookChanges yielded so far, in order, each with the index of
\* its generator; applied, the indices of the generators that yielded the BookChange
\* of a snapshot message, in the order they did; recorded, the indices of the generators
\* that went on past that yield, in the order they did; closed, the indices of the
\* generators that were closed by return(); raised, of those that ended in an error;
\* oneAfterAnother, whether every map call so far was made with every earlier
\* generator drained to its end.
NewSequences ==
    [generators |-> <<>>, yielded |-> <<>>, applied |-> <<>>, recorded |-> <<>>,
     closed |-> {}, raised |-> {},
     oneAfterAnother |-> TRUE]

InitInterleaved ==
    /\ now = Now
    /\ referenceTimestamp \in ReferenceTimestamps
    /\ \E exchange \in BinanceExchanges :
           mapper = normalizeBookChanges(exchange, referenceTimestamp, now).returned[1]
    /\ symbolToDepthInfoMapping = << >>
    /\ calls = 0
    /\ lastCall = << >>
    /\ history = << >>
    /\ unfailed = << >>
    /\ registry = << >>
    /\ ring = << >>
    /\ tickers = << >>
    /\ sequences = NewSequences

DrainedToItsEnd(k) == sequences.generators[k].at = "done" /\ k \notin sequences.closed

\* mapper.map(message, localTimestamp): the generator is created, none of map runs
CallMap ==
    /\ calls < MaxInterleavedCalls
    /\ \E message \in InterleavedMessages(mapper) :
           sequences' = [sequences EXCEPT
               !.generators = Append(@, NewSequence(message, referenceTimestamp + calls + 1)),
               !.oneAfterAnother = @ /\ \A k \in 1..Len(sequences.generators) : DrainedToItsEnd(k)]
    /\ calls' = calls + 1
    /\ UNCHANGED <<now, referenceTimestamp, mapper, symbolToDepthInfoMapping, lastCall,
                   history, unfailed, registry, ring, tickers>>

\* generator.next() on one of the generators that are not done
GeneratorNext ==
    /\ \E k \in 1..Len(sequences.generators) :
           /\ sequences.generators[k].at # "done"
           /\ LET g == sequences.generators[k]
                  r == next(mapper, symbolToDepthInfoMapping, g)
              IN  /\ symbolToDepthInfoMapping' = r.mapping
                  /\ sequences' = [sequences EXCEPT
                         !.generators[k] = r.sequence,
                         !.yielded = @ \o [i \in 1..Len(r.yielded) |->
                                              [sequence |-> k, event |-> r.yielded[i]]],
                         !.applied = IF r.sequence.at = "afterSnapshot" THEN Append(@, k) ELSE @,
                         !.recorded = IF g.at = "afterSnapshot" THEN Append(@, k) ELSE @,
                         !.raised = IF r.thrown # <<>> THEN @ \cup {k} ELSE @]
    /\ UNCHANGED <<now, referenceTimestamp, mapper, calls, lastCall, history, unfailed,
                   registry, ring, tickers>>

\* generator.return() on one of the suspended generators (what a for-of loop that is
\* left early does)
GeneratorReturn ==
    /\ \E k \in 1..Len(sequences.generators) :
           /\ sequences.generators[k].at \in {"afterSnapshot", "inReplay", "afterUpdate"}
           /\ sequences' = [sequences EXCEPT !.generators[k] = return(@),
                                             !.closed = @ \cup {k}]
    /\ UNCHANGED <<now, referenceTimestamp, mapper, symbolToDepthInfoMapping, calls, lastCall,
                   history, unfailed, registry, ring, tickers>>

NextInterleaved == CallMap \/ GeneratorNext \/ GeneratorReturn

SpecInterleaved == InitInterleaved /\ [][NextInterleaved]_vars

----------------------------------------------------------------------------
(* Vocabulary of the properties *)

Called == lastCall # << >>

Last == lastCall[1]

LastSymbol == SymbolOf(Last.message)

\* the LocalDepthInfo of sym in a mapping, a fresh one when the symbol has none yet
InfoIn(mapping, sym) ==
    IF sym \in DOMAIN mapping THEN mapping[sym] ELSE [bufferedUpdates |-> NewCircularBuffer]

SnapshotProcessedIn(mapping, sym) == Truthy(InfoIn(mapping, sym), "snapshotProcessed")

ValidatedIn(mapping, sym) == Truthy(InfoIn(mapping, sym), "validatedFirstUpdate")

IsFutures == mapper.class = "BinanceFuturesBookChangeMapper"

IsStrict == mapper.ignoreBookSnapshotOverlapError = FALSE

Min(a, b) == IF a < b THEN a ELSE b

\* the last n elements of a sequence
LastN(seq, n) == SubSeq(seq, Len(seq) - n + 1, Len(seq))

\* the updates a symbol's buffer should hold, given those that arrived before the snapshot
Retained(sym) ==
    LastN(history[sym].received, Min(Len(history[sym].received), BufferCapacity))

\* the last call is the first snapshot message of its symbol
LastIsFirstSnapshot ==
    /\ Called
    /\ IsSnapshotMessage(Last.message)
    /\ ~SnapshotProcessedIn(Last.before, LastSymbol)

\* the last call is a snapshot message for a symbol whose snapshot was already processed
LastIsLaterSnapshot ==
    /\ Called
    /\ IsSnapshotMessage(Last.message)
    /\ SnapshotProcessedIn(Last.before, LastSymbol)

\* the last call is a depth update that arrived after the snapshot of its symbol
LastIsLiveUpdate ==
    /\ Called
    /\ ~IsSnapshotMessage(Last.message)
    /\ SnapshotProcessedIn(Last.before, LastSymbol)

\* the updates that were buffered when the last call (a first snapshot) began
BufferedAtSnapshot == LastN(history[LastSymbol].received,
                            Min(Len(history[LastSymbol].received), BufferCapacity))

----------------------------------------------------------------------------
(* C1 *)

\* C1: while no snapshot message has been mapped for a symbol, no BookChange has been
\* emitted for it and its ring buffer holds, in arrival order, the most recent
\* min(k, capacity) of the k depth updates mapped for it.
C1_BufferedBeforeSnapshot ==
    \A sym \in Symbols :
        ~SnapshotProcessedIn(symbolToDepthInfoMapping, sym) =>
            /\ history[sym].emitted = 0
            /\ history[sym].applied = 0
            /\ items(InfoIn(symbolToDepthInfoMapping, sym).bufferedUpdates) = Retained(sym)
            /\ count(InfoIn(symbolToDepthInfoMapping, sym).bufferedUpdates)
                   = Min(Len(history[sym].received), BufferCapacity)

\* more updates than the buffer holds arrived before the snapshot, the oldest one differing
\* from the ones kept
C1_Witness ==
    \E sym \in Symbols :
        /\ ~SnapshotProcessedIn(symbolToDepthInfoMapping, sym)
        /\ Len(history[sym].received) > BufferCapacity
        /\ \A i \in 1..Len(Retained(sym)) : Retained(sym)[i] # history[sym].received[1]
        /\ Retained(sym)[1] # Retained(sym)[Len(Retained(sym))]

----------------------------------------------------------------------------
(* C2 *)

\* a snapshot message for a symbol whose snapshot was already processed yields nothing
\* and leaves the whole mapping as it was
LaterSnapshotIsDropped ==
    LastIsLaterSnapshot =>
        /\ Last.yielded = << >>
        /\ Last.thrown = << >>
        /\ symbolToDepthInfoMapping = Last.before

\* C2 as stated: a later snapshot message is dropped, and over the whole run at most one
\* isSnapshot=true BookChange is emitted per symbol.
C2_Original ==
    /\ LaterSnapshotIsDropped
    /\ \A sym \in Symbols : history[sym].snapshotEvents <= 1

\* C2 amended: a later snapshot message is dropped, at most one snapshot message is ever
\* applied per symbol, and the isSnapshot=true BookChanges of a symbol are the one of
\* that snapshot message plus, in the futures mapper only, one per emitted update
\* that carries pu = -1.
C2_AtMostOneSnapshotApplied ==
    /\ LaterSnapshotIsDropped
    /\ \A sym \in Symbols :
           /\ history[sym].applied <= 1
           /\ history[sym].applied = 1 <=> SnapshotProcessedIn(symbolToDepthInfoMapping, sym)
           /\ history[sym].snapshotEvents
                  = history[sym].applied
                    + Cardinality({i \in 1..Len(history[sym].accepted) :
                                      IsFutures /\ history[sym].accepted[i].pu = -1})

\* a second snapshot message with another lastUpdateId was dropped after updates were emitted
C2_Witness ==
    /\ LastIsLaterSnapshot
    /\ Last.message.data.lastUpdateId # Last.before[LastSymbol].lastUpdateId
    /\ history[LastSymbol].accepted # << >>
    /\ ValidatedIn(symbolToDepthInfoMapping, LastSymbol)

----------------------------------------------------------------------------
(* C3 *)

\* stale at replay time, by the words of the specification: not strictly newer
StaleAsSpecified(data, lastUpdateId) == data.u <= lastUpdateId

\* stale as each mapper decides it
Stale(data, lastUpdateId) ==
    IF IsFutures THEN data.u < lastUpdateId ELSE data.u <= lastUpdateId

\* the overlap test of each mapper on the first update that is not stale
Overlaps(data, lastUpdateId) ==
    IF IsFutures
    THEN (data.U <= lastUpdateId /\ data.u >= lastUpdateId) \/ data.pu = -1
    ELSE (data.U <= lastUpdateId + 1 /\ data.u >= lastUpdateId + 1) \/ lastUpdateId = -1

ExpectedSnapshotEvent ==
    [type |-> "book_change", symbol |-> LastSymbol, exchange |-> mapper.exchange,
     isSnapshot |-> TRUE,
     bids |-> [i \in 1..Len(Last.message.data.bids) |->
                 [price |-> Number(Last.message.data.bids[i][1]),
                  amount |-> Number(Last.message.data.bids[i][2])]],
     asks |-> [i \in 1..Len(Last.message.data.asks) |->
                 [price |-> Number(Last.message.data.asks[i][1]),
                  amount |-> Number(Last.message.data.asks[i][2])]],
     timestamp |-> Last.localTimestamp, localTimestamp |-> Last.localTimestamp]

ExpectedUpdateEvent(data, isSnapshot) ==
    [type |-> "book_change", symbol |-> LastSymbol, exchange |-> mapper.exchange,
     isSnapshot |-> isSnapshot,
     bids |-> [i \in 1..Len(data.b) |->
                 [price |-> Number(data.b[i][1]), amount |-> Number(data.b[i][2])]],
     asks |-> [i \in 1..Len(data.a) |->
                 [price |-> Number(data.a[i][1]), amount |-> Number(data.a[i][2])]],
     timestamp |-> data.E, localTimestamp |-> Last.localTimestamp]

StaleAsSpecifiedAtSnapshot(data) == StaleAsSpecified(data, Last.message.data.lastUpdateId)

FreshAtSnapshot(data) == ~Stale(data, Last.message.data.lastUpdateId)

NotStaleAsSpecifiedAtSnapshot(data) == ~StaleAsSpecifiedAtSnapshot(data)

\* C3 as stated: the first snapshot message yields its isSnapshot=true BookChange and then
\* the buffered updates that are not stale, in arrival order, each isSnapshot=false.
C3_Original ==
    LastIsFirstSnapshot =>
        LET fresh == SelectSeq(BufferedAtSnapshot, NotStaleAsSpecifiedAtSnapshot)
        IN  Last.yielded = <<ExpectedSnapshotEvent>> \o
                           [i \in 1..Len(fresh) |-> ExpectedUpdateEvent(fresh[i], FALSE)]

\* C3 amended: the first snapshot message yields its isSnapshot=true BookChange first; if
\* the call raises no error, that is followed by the BookChanges of the buffered updates
\* that the mapper does not hold stale (spot: u <= lastUpdateId, futures: u < lastUpdateId),
\* in arrival order, each isSnapshot=false except a futures update with pu = -1; if a
\* strict mapper raises the overlap error on the first such update, the snapshot's
\* BookChange is the only event of the call.
C3_SnapshotThenReplay ==
    LastIsFirstSnapshot =>
        LET fresh == SelectSeq(BufferedAtSnapshot, FreshAtSnapshot)
        IN  IF Last.thrown = << >>
            THEN /\ Last.yielded = <<ExpectedSnapshotEvent>> \o
                       [i \in 1..Len(fresh) |->
                           ExpectedUpdateEvent(fresh[i], IsFutures /\ fresh[i].pu = -1)]
                 /\ Last.accepted = fresh
            ELSE /\ Last.yielded = <<ExpectedSnapshotEvent>>
                 /\ IsStrict
                 /\ fresh # << >>
                 /\ ~Overlaps(fresh[1], Last.message.data.lastUpdateId)

\* a first snapshot replays a buffer that had wrapped around: a stale update is dropped
\* and two different updates are emitted after the snapshot's BookChange
C3_Witness ==
    /\ LastIsFirstSnapshot
    /\ Len(history[LastSymbol].received) > BufferCapacity
    /\ Len(Last.yielded) = 3
    /\ Last.yielded[2] # Last.yielded[3]

----------------------------------------------------------------------------
(* C4 *)

\* the buffered updates of sym that its mapper does not hold stale against the snapshot
FreshRetained(sym) ==
    LET fresh(data) == ~Stale(data, symbolToDepthInfoMapping[sym].lastUpdateId)
    IN  SelectSeq(Retained(sym), fresh)

\* C4: whenever a symbol's snapshot has been processed (and no map call is in progress),
\* its buffer is empty and every update that was buffered has been replayed: the ones
\* not stale are the first updates emitted for the symbol.
C4_BufferReplayedAndCleared ==
    \A sym \in DOMAIN symbolToDepthInfoMapping :
        SnapshotProcessedIn(symbolToDepthInfoMapping, sym) =>
            /\ count(symbolToDepthInfoMapping[sym].bufferedUpdates) = 0
            /\ Len(FreshRetained(sym)) <= Len(history[sym].accepted)
            /\ SubSeq(history[sym].accepted, 1, Len(FreshRetained(sym))) = FreshRetained(sym)

----------------------------------------------------------------------------
(* C5 *)

\* the lastUpdateId the last call compared its updates with
LastUpdateIdOfLast ==
    IF IsSnapshotMessage(Last.message)
    THEN Last.message.data.lastUpdateId
    ELSE Last.before[LastSymbol].lastUpdateId

\* C5 as stated: after the snapshot, an update with u <= lastUpdateId, live or replayed,
\* yields nothing and changes nothing, in the spot and in the futures mapper.
C5_Original ==
    /\ (LastIsLiveUpdate /\ StaleAsSpecified(Last.message.data, LastUpdateIdOfLast)) =>
           /\ Last.yielded = << >>
           /\ Last.thrown = << >>
           /\ symbolToDepthInfoMapping = Last.before
    /\ LastIsFirstSnapshot =>
           /\ \A i \in 1..Len(Last.accepted) :
                  ~StaleAsSpecified(Last.accepted[i], LastUpdateIdOfLast)
           /\ (\A i \in 1..Len(BufferedAtSnapshot) :
                  StaleAsSpecified(BufferedAtSnapshot[i], LastUpdateIdOfLast)) =>
                  /\ Last.yielded = <<ExpectedSnapshotEvent>>
                  /\ Last.thrown = << >>
                  /\ ~ValidatedIn(symbolToDepthInfoMapping, LastSymbol)

\* C5 amended: after the snapshot, an update, live or replayed, is discarded (no event, no
\* error, no change of the symbol's state, validatedFirstUpdate not set) when
\* u <= lastUpdateId in the spot mappers and when u < lastUpdateId in the futures mapper.
C5_StaleDiscarded ==
    /\ (LastIsLiveUpdate /\ Stale(Last.message.data, LastUpdateIdOfLast)) =>
           /\ Last.yielded = << >>
           /\ Last.thrown = << >>
           /\ Last.debugged = << >>
           /\ symbolToDepthInfoMapping = Last.before
    /\ LastIsFirstSnapshot =>
           /\ \A i \in 1..Len(Last.accepted) : ~Stale(Last.accepted[i], LastUpdateIdOfLast)
           /\ (\A i \in 1..Len(BufferedAtSnapshot) :
                  Stale(BufferedAtSnapshot[i], LastUpdateIdOfLast)) =>
                  /\ Last.yielded = <<ExpectedSnapshotEvent>>
                  /\ Last.thrown = << >>
                  /\ Last.debugged = << >>
                  /\ ~ValidatedIn(symbolToDepthInfoMapping, LastSymbol)

\* a live update whose u equals lastUpdateId was discarded before any update was validated
C5_Witness ==
    /\ LastIsLiveUpdate
    /\ Last.message.data.u = LastUpdateIdOfLast
    /\ Last.yielded = << >>
    /\ ~ValidatedIn(symbolToDepthInfoMapping, LastSymbol)

----------------------------------------------------------------------------
(* C6 *)

\* the symbol of the last call was Streaming when the call began
LastWasStreaming == LastIsLiveUpdate /\ ValidatedIn(Last.before, LastSymbol)

MaxAcceptedBefore ==
    LET prior == SubSeq(history[LastSymbol].accepted, 1,
                        Len(history[LastSymbol].accepted) - Len(Last.accepted))
    IN  IF prior = << >> THEN -1
        ELSE CHOOSE x \in {prior[i].u : i \in 1..Len(prior)} :
                 \A i \in 1..Len(prior) : prior[i].u <= x

\* C6 as stated: once Streaming, an update whose u is at most the highest u accepted so
\* far for the symbol yields nothing, so the u of the isSnapshot=false BookChanges of a
\* symbol strictly increase.
C6_Original ==
    /\ (LastWasStreaming /\ Last.message.data.u <= MaxAcceptedBefore) => Last.yielded = << >>
    /\ \A sym \in Symbols :
           LET acc == history[sym].accepted
           IN  \A i, j \in 1..Len(acc) :
                   (i < j /\ ~(IsFutures /\ acc[i].pu = -1) /\ ~(IsFutures /\ acc[j].pu = -1))
                       => acc[i].u < acc[j].u

\* C6 amended: once Streaming, an update is discarded with zero events exactly when it is
\* stale against the lastUpdateId of the snapshot (spot: u <= lastUpdateId, futures:
\* u < lastUpdateId), for every symbol independently, and is emitted as one BookChange
\* otherwise; so every emitted update of a symbol is newer than its snapshot, while the
\* u of successive emitted updates need not increase.
C6_StaleAgainstSnapshotOnly ==
    /\ LastWasStreaming =>
           /\ Last.thrown = << >>
           /\ symbolToDepthInfoMapping = Last.before
           /\ IF Stale(Last.message.data, LastUpdateIdOfLast)
              THEN Last.yielded = << >>
              ELSE Last.yielded = <<ExpectedUpdateEvent(Last.message.data,
                                        IsFutures /\ Last.message.data.pu = -1)>>
    /\ \A sym \in Symbols :
           \A i \in 1..Len(history[sym].accepted) :
               ~Stale(history[sym].accepted[i], symbolToDepthInfoMapping[sym].lastUpdateId)

\* a Streaming symbol emitted an update whose u is below one it had emitted before
C6_Witness ==
    /\ LastWasStreaming
    /\ Last.yielded # << >>
    /\ ~Last.yielded[1].isSnapshot
    /\ Last.message.data.u < MaxAcceptedBefore

----------------------------------------------------------------------------
(* C7 *)

\* the overlap test of the spot mapper: U <= lastUpdateId + 1 <= u, or an empty snapshot
OverlapsSpot(data, lastUpdateId) ==
    (data.U <= lastUpdateId + 1 /\ data.u >= lastUpdateId + 1) \/ lastUpdateId = -1

\* the buffered updates with u > the snapshot's lastUpdateId
NewerAtSnapshot == SelectSeq(BufferedAtSnapshot, NotStaleAsSpecifiedAtSnapshot)

\* C7: in the spot mapper, the first update with u > lastUpdateId that is processed after
\* the snapshot (live, or replayed from the buffer) passes without error and without a
\* logged message exactly when U <= lastUpdateId + 1 and u >= lastUpdateId + 1, or
\* lastUpdateId = -1; when it passes, validatedFirstUpdate becomes true, one
\* isSnapshot=false BookChange with the update's levels is emitted and lastUpdateId
\* stays the snapshot's.
C7_FirstUpdateOverlap ==
    ~IsFutures =>
        /\ (/\ LastIsLiveUpdate
            /\ ~ValidatedIn(Last.before, LastSymbol)
            /\ Last.message.data.u > LastUpdateIdOfLast) =>
               LET passes == OverlapsSpot(Last.message.data, LastUpdateIdOfLast)
               IN  /\ passes <=> (Last.thrown = << >> /\ Last.debugged = << >>)
                   /\ passes =>
                          /\ ValidatedIn(symbolToDepthInfoMapping, LastSymbol)
                          /\ Last.yielded = <<ExpectedUpdateEvent(Last.message.data, FALSE)>>
                          /\ symbolToDepthInfoMapping[LastSymbol].lastUpdateId = LastUpdateIdOfLast
        /\ (LastIsFirstSnapshot /\ NewerAtSnapshot # << >>) =>
               LET passes == OverlapsSpot(NewerAtSnapshot[1], LastUpdateIdOfLast)
               IN  /\ passes <=> (Last.thrown = << >> /\ Last.debugged = << >>)
                   /\ passes =>
                          /\ ValidatedIn(symbolToDepthInfoMapping, LastSymbol)
                          /\ Len(Last.yielded) >= 2
                          /\ Last.yielded[2] = ExpectedUpdateEvent(NewerAtSnapshot[1], FALSE)
                          /\ symbolToDepthInfoMapping[LastSymbol].lastUpdateId = LastUpdateIdOfLast

\* a spot mapper accepted, as first update after a snapshot with lastUpdateId 4, a live
\* update that starts exactly at lastUpdateId + 1
C7_Witness ==
    /\ ~IsFutures
    /\ LastIsLiveUpdate
    /\ ~ValidatedIn(Last.before, LastSymbol)
    /\ LastUpdateIdOfLast # -1
    /\ Last.message.data.U = LastUpdateIdOfLast + 1
    /\ Last.yielded # << >>
    /\ Last.debugged = << >>
    /\ ValidatedIn(symbolToDepthInfoMapping, LastSymbol)

----------------------------------------------------------------------------
(* C8 *)

ExpectedOverlapMessage(data) ==
    [text |-> "Book depth snaphot has no overlap with first update",
     update |-> data, lastUpdateId |-> LastUpdateIdOfLast, exchange |-> mapper.exchange]

FreshBuffered == SelectSeq(BufferedAtSnapshot, FreshAtSnapshot)

\* C8: when the first update that is not stale fails the overlap test of its mapper
\* (spot or futures; live or replayed), a strict mapper raises the error naming the
\* exchange, the update and lastUpdateId, emits nothing for the update and leaves
\* validatedFirstUpdate unset, while a tolerant mapper raises nothing, logs that message,
\* sets validatedFirstUpdate and emits the update as an isSnapshot=false BookChange; a
\* tolerant mapper never raises.
C8_StrictRaisesTolerantEmits ==
    /\ (Called /\ ~IsStrict) => Last.thrown = << >>
    /\ (/\ LastIsLiveUpdate
        /\ ~ValidatedIn(Last.before, LastSymbol)
        /\ ~Stale(Last.message.data, LastUpdateIdOfLast)
        /\ ~Overlaps(Last.message.data, LastUpdateIdOfLast)) =>
           IF IsStrict
           THEN /\ Last.thrown = <<ExpectedOverlapMessage(Last.message.data)>>
                /\ Last.thrown[1].update.s = LastSymbol
                /\ Last.yielded = << >>
                /\ Last.debugged = << >>
                /\ symbolToDepthInfoMapping = Last.before
           ELSE /\ Last.thrown = << >>
                /\ Last.debugged = <<ExpectedOverlapMessage(Last.message.data)>>
                /\ ValidatedIn(symbolToDepthInfoMapping, LastSymbol)
                /\ Last.yielded = <<ExpectedUpdateEvent(Last.message.data, FALSE)>>
    /\ (/\ LastIsFirstSnapshot
        /\ FreshBuffered # << >>
        /\ ~Overlaps(FreshBuffered[1], LastUpdateIdOfLast)) =>
           IF IsStrict
           THEN /\ Last.thrown = <<ExpectedOverlapMessage(FreshBuffered[1])>>
                /\ Last.thrown[1].update.s = LastSymbol
                /\ Last.yielded = <<ExpectedSnapshotEvent>>
                /\ Last.debugged = << >>
                /\ ~ValidatedIn(symbolToDepthInfoMapping, LastSymbol)
           ELSE /\ Last.thrown = << >>
                /\ Last.debugged = <<ExpectedOverlapMessage(FreshBuffered[1])>>
                /\ ValidatedIn(symbolToDepthInfoMapping, LastSymbol)
                /\ Len(Last.yielded) >= 2
                /\ Last.yielded[2] = ExpectedUpdateEvent(FreshBuffered[1], FALSE)

\* a strict mapper raised the error on a live update, no update of the symbol having been
\* emitted yet
C8_Witness ==
    /\ LastIsLiveUpdate
    /\ IsStrict
    /\ Last.thrown # << >>
    /\ Last.thrown[1].update = Last.message.data
    /\ history[LastSymbol].accepted = << >>

----------------------------------------------------------------------------
(* C9 *)

\* C9: an overlap error raised while mapping a message of one symbol leaves the state of
\* every other symbol as it was, and every symbol on whose messages no error was raised
\* has the state, and gets from each of its map calls the events, of a twin mapper to
\* which the failing messages were never given.
C9_ErrorIsLocal ==
    /\ (Called /\ Last.thrown # << >>) =>
           /\ \A sym \in Symbols \ {LastSymbol} :
                  /\ sym \in DOMAIN symbolToDepthInfoMapping <=> sym \in DOMAIN Last.before
                  /\ InfoIn(symbolToDepthInfoMapping, sym) = InfoIn(Last.before, sym)
    /\ \A sym \in Symbols :
           history[sym].raised = 0 =>
               InfoIn(symbolToDepthInfoMapping, sym) = InfoIn(unfailed, sym)
    /\ (Called /\ history[LastSymbol].raised = 0) => Last.yielded = Last.twinYielded

\* after an error on another symbol, whose state it changed, a symbol that never failed
\* gets a snapshot message and emits its BookChange and a replayed update
C9_Witness ==
    /\ LastIsFirstSnapshot
    /\ history[LastSymbol].raised = 0
    /\ Len(Last.yielded) >= 2
    /\ \E other \in Symbols \ {LastSymbol} :
           /\ history[other].raised > 0
           /\ InfoIn(symbolToDepthInfoMapping, other) # InfoIn(unfailed, other)

----------------------------------------------------------------------------
(* C10 *)

\* the reference timestamp lies three minutes or more before the current time
Historical == referenceTimestamp <= now - 180000

\* C10 as stated: for the four Binance exchanges normalizeBookChanges builds a strict
\* mapper (the overlap failure is fatal) for a historical reference timestamp and a
\* tolerant one (the failure is logged) for a real-time reference timestamp.
C10_Original ==
    /\ mapper.exchange \in {"binance", "binance-us", "binance-jersey", "binance-futures"}
    /\ Historical => (Called => Last.debugged = << >>)
    /\ ~Historical => (Called => Last.thrown = << >>)

\* C10 amended: for the four Binance exchanges normalizeBookChanges builds a tolerant
\* mapper (ignoreBookSnapshotOverlapError set: the overlap failure is logged, never
\* raised) when the reference timestamp lies three minutes or more before the current
\* time, and a strict one (the failure is raised, never logged) when it is within three
\* minutes of the current time.
C10_StrictOnlyInRealTime ==
    /\ mapper.exchange \in {"binance", "binance-us", "binance-jersey", "binance-futures"}
    /\ mapper.class = (IF mapper.exchange = "binance-futures"
                       THEN "BinanceFuturesBookChangeMapper" ELSE "BinanceBookChangeMapper")
    /\ mapper.ignoreBookSnapshotOverlapError <=> Historical
    /\ Historical => (Called => Last.thrown = << >>)
    /\ ~Historical => (Called => Last.debugged = << >>)

\* a mapper built for a reference timestamp exactly three minutes old logged an overlap
\* failure and emitted the update
C10_Witness ==
    /\ referenceTimestamp = now - 180000
    /\ Called
    /\ Last.debugged # << >>
    /\ Last.accepted # << >>

----------------------------------------------------------------------------
(* Vocabulary of the registry's properties *)

\* the exchanges the library supports
SupportedExchanges ==
    {"bitmex", "binance", "binance-us", "binance-jersey", "binance-futures", "binance-dex",
     "bitfinex", "bitfinex-derivatives", "bitfinex-alts", "bitflyer", "bitstamp", "coinbase",
     "cryptofacilities", "deribit", "ftx", "gemini", "kraken", "okex", "okex-futures",
     "okex-swap", "okex-options", "huobi", "huobi-dm", "bybit", "okcoin", "hitbtc"}

\* the exchanges that publish derivative tickers
ExchangesWithDerivativeInfo ==
    {"bitmex", "binance-futures", "bitfinex-derivatives", "cryptofacilities", "deribit",
     "okex-futures", "okex-swap", "bybit"}

\* the exchanges that have a factory for an event kind
RegisteredFor(operation) ==
    IF operation = "normalizeDerivativeTickers" THEN ExchangesWithDerivativeInfo ELSE SupportedExchanges

\* the last step was a call of a normalize function; that call
Normalized == registry.last # <<>> /\ registry.last[1].kind = "normalize"
LastNormalize == registry.last[1]

\* the last step was a map call on a mapper handed out; that call
RegistryMapped == registry.last # <<>> /\ registry.last[1].kind = "map"
LastRegistryMap == registry.last[1]

\* the heap is as it was before the last call
HeapUntouched(before) ==
    /\ registry.objects = before.objects
    /\ registry.stores = before.stores
    /\ registry.handed = before.handed

----------------------------------------------------------------------------
(* C11 *)

\* C11: a normalize function called with an exchange that has no factory for its event kind
\* throws, from the call itself, the error "<operation>: <exchange> not supported" and
\* constructs no mapper; called with an exchange that has one, it returns a mapper and
\* throws nothing.
C11_UnregisteredIsNotSupported ==
    Normalized =>
        LET c == LastNormalize
        IN  IF c.exchange \in RegisteredFor(c.operation)
            THEN c.thrown = <<>> /\ c.returned # <<>>
            ELSE /\ c.thrown = << <<c.operation, ": ", c.exchange, " not supported">> >>
                 /\ c.returned = <<>>
                 /\ HeapUntouched(c.before)

\* normalizeDerivativeTickers fails for an exchange whose trades mapper was constructed before
C11_Witness ==
    /\ Normalized
    /\ LastNormalize.operation = "normalizeDerivativeTickers"
    /\ LastNormalize.exchange \notin RegisteredFor("normalizeDerivativeTickers")
    /\ LastNormalize.thrown # <<>>
    /\ LastNormalize.before.objects # <<>>

----------------------------------------------------------------------------
(* C12 *)

\* the entries whose factory returns a mapper object imported from the exchange's module
ImportedTradesEntries ==
    {"bitmex", "binance-dex", "bitflyer", "bitstamp", "coinbase", "cryptofacilities", "deribit",
     "ftx", "gemini", "kraken", "hitbtc"}

ImportedBookChangeEntries ==
    {"binance-dex", "bitflyer", "coinbase", "cryptofacilities", "deribit", "ftx", "gemini",
     "kraken", "hitbtc"}

ImportedEntry(operation, exchange) ==
    \/ operation = "normalizeTrades" /\ exchange \in ImportedTradesEntries
    \/ operation = "normalizeBookChanges" /\ exchange \in ImportedBookChangeEntries

\* the references handed out before a call, and those of them handed out by its operation
HandedBefore(c) == {c.before.handed[k].reference : k \in 1..Len(c.before.handed)}

HandedBeforeBySame(c) ==
    {c.before.handed[k].reference :
        k \in {n \in 1..Len(c.before.handed) : c.before.handed[n].operation = c.operation}}

\* the objects of the heap that keep per-symbol depth state
WithDepthInfo(objects) ==
    {j \in 1..Len(objects) : "symbolToDepthInfoMapping" \in DOMAIN objects[j]}

\* a reference to an object that the call constructed, whose per-symbol state is its own and empty
FreshlyConstructed(c, reference) ==
    /\ "object" \in DOMAIN reference
    /\ reference.object = Len(c.before.objects) + 1
    /\ reference \notin HandedBefore(c)
    /\ reference.object \in WithDepthInfo(registry.objects) =>
           LET store == registry.objects[reference.object].symbolToDepthInfoMapping
           IN  /\ \A j \in WithDepthInfo(c.before.objects) :
                      c.before.objects[j].symbolToDepthInfoMapping # store
               /\ registry.stores[store] = <<>>

\* what an object of the heap would emit for a message, given the stores
WouldEmit(of, j, message) ==
    map(of.objects[j].mapper, of.stores[of.objects[j].symbolToDepthInfoMapping], message, Now).yielded

\* C12 as stated: every call that returns a mapper returns one that the call constructed,
\* with per-symbol state of its own
C12_Original ==
    Normalized /\ LastNormalize.returned # <<>> =>
        FreshlyConstructed(LastNormalize, LastNormalize.returned[1])

\* C12: a call for an entry that constructs its mapper returns a new object whose per-symbol
\* state is its own and empty, however often the exchange was asked for before; a call for an
\* entry that returns its module's mapper object returns that one object and constructs
\* nothing; a message mapped through one constructed mapper leaves the state of every other
\* one, and what it would emit, as they were.
C12_ConstructingEntriesShareNothing ==
    /\ Normalized /\ LastNormalize.returned # <<>> =>
           LET c == LastNormalize
               reference == c.returned[1]
           IN  IF ImportedEntry(c.operation, c.exchange)
               THEN /\ "imported" \in DOMAIN reference
                    /\ registry.objects = c.before.objects
                    /\ registry.stores = c.before.stores
                    /\ HandedBeforeBySame(c) \subseteq {reference}
               ELSE FreshlyConstructed(c, reference)
    /\ RegistryMapped =>
           LET c == LastRegistryMap
           IN  \A j \in WithDepthInfo(registry.objects) \ {c.object} :
                   /\ registry.objects[j].symbolToDepthInfoMapping #
                          registry.objects[c.object].symbolToDepthInfoMapping
                   /\ \A message \in RegistryMessages(registry.objects[j].mapper) :
                          WouldEmit(registry, j, message) = WouldEmit(c.before, j, message)

\* two book-change mappers of one exchange: a message mapped through one changed its state,
\* and the other one still has no record of the symbol; the exchange's trades mapper was
\* handed out as well
C12_Witness ==
    /\ RegistryMapped
    /\ Len(registry.handed) > 2
    /\ Cardinality(WithDepthInfo(registry.objects)) = 2
    /\ LET c == LastRegistryMap
           mine == registry.objects[c.object].symbolToDepthInfoMapping
       IN  /\ registry.stores[mine] # c.before.stores[mine]
           /\ \E j \in WithDepthInfo(registry.objects) \ {c.object} :
                  registry.stores[registry.objects[j].symbolToDepthInfoMapping] = <<>>

----------------------------------------------------------------------------
(* C13 *)

\* C13: for a supported exchange normalizeTrades and normalizeBookChanges return a mapper, and
\* normalizeDerivativeTickers returns one exactly for the eight exchanges with derivative
\* tickers and fails with its 'not supported' error for the others; for no identifier does
\* one of normalizeTrades and normalizeBookChanges return a mapper and the other fail.
C13_CoverageOfTheTables ==
    /\ Normalized /\ LastNormalize.exchange \in SupportedExchanges =>
           LET c == LastNormalize
           IN  IF c.operation = "normalizeDerivativeTickers"
               THEN IF c.exchange \in {"bitmex", "binance-futures", "bitfinex-derivatives",
                                       "cryptofacilities", "deribit", "okex-futures",
                                       "okex-swap", "bybit"}
                    THEN c.returned # <<>> /\ c.thrown = <<>>
                    ELSE /\ c.returned = <<>>
                         /\ c.thrown = <<NotSupported("normalizeDerivativeTickers", c.exchange)>>
               ELSE c.returned # <<>> /\ c.thrown = <<>>
    /\ ~ ("normalizeTrades" \in registry.returnedFor /\ "normalizeBookChanges" \in registry.thrownFor)
    /\ ~ ("normalizeBookChanges" \in registry.returnedFor /\ "normalizeTrades" \in registry.thrownFor)

\* a supported exchange without derivative tickers was asked for all three kinds of mapper
C13_Witness ==
    /\ Normalized
    /\ registry.exchange \in SupportedExchanges
    /\ registry.returnedFor = {"normalizeTrades", "normalizeBookChanges"}
    /\ registry.thrownFor = {"normalizeDerivativeTickers"}

----------------------------------------------------------------------------
(* Vocabulary of the ring buffer's properties *)

RingCalled(call) == ring.last # <<>> /\ ring.last[1].call = call
LastRingCall == ring.last[1]

----------------------------------------------------------------------------
(* C14 *)

\* C14: with capacity N, after k appends (since construction or clear) items() yields the last
\* min(k, N) appended values, oldest first; append returns the oldest held value exactly when
\* the buffer held N values before the call, and nothing otherwise; the buffer never holds
\* more than N values.
C14_FifoEviction ==
    /\ items(ring.buffer) = LastN(ring.appended, Min(Len(ring.appended), ring._bufferSize))
    /\ count(ring.buffer) <= ring._bufferSize
    /\ RingCalled("append") =>
           LET c == LastRingCall
               k == Len(c.appendedBefore)
           IN  IF count(c.before) = ring._bufferSize
               THEN k >= ring._bufferSize
                    /\ c.returned = <<c.appendedBefore[k - ring._bufferSize + 1]>>
               ELSE c.returned = <<>>

\* an append to a buffer of capacity above one that has already wrapped around returned the
\* oldest value, which differs from the newest value held before
C14_Witness ==
    /\ RingCalled("append")
    /\ ring._bufferSize > 1
    /\ Len(LastRingCall.appendedBefore) > ring._bufferSize
    /\ LastRingCall.returned # <<>>
    /\ LastRingCall.returned[1] # LastRingCall.appendedBefore[Len(LastRingCall.appendedBefore)]

----------------------------------------------------------------------------
(* C17 *)

\* a buffer constructed with the capacity and given the values in turn
RECURSIVE Refilled(_, _, _)
Refilled(cb, values, bufferSize) ==
    IF values = <<>> THEN cb
    ELSE Refilled(append(cb, Head(values), bufferSize), Tail(values), bufferSize)

\* C17: items() leaves the buffer as it was and yields the same sequence when drained again;
\* clear() leaves the buffer as a newly constructed one is (count 0, nothing to yield, cursor
\* at the start), also after wraparound, and from then on the buffer is the one that a newly
\* constructed buffer becomes under the appends made since the clear.
C17_ItemsReadsClearResets ==
    /\ RingCalled("items") =>
           ring.buffer = LastRingCall.before /\ items(ring.buffer) = LastRingCall.yielded
    /\ RingCalled("clear") =>
           ring.buffer = NewCircularBuffer /\ count(ring.buffer) = 0 /\ items(ring.buffer) = <<>>
    /\ ring.buffer = Refilled(NewCircularBuffer, ring.appended, ring._bufferSize)

\* clear() on a buffer that had wrapped around and whose cursor was not at the start
C17_Witness ==
    /\ RingCalled("clear")
    /\ Len(LastRingCall.appendedBefore) > ring._bufferSize
    /\ LastRingCall.before._index # 0
    /\ count(LastRingCall.before) = ring._bufferSize

----------------------------------------------------------------------------
(* Vocabulary of the derivative-ticker mapper's properties *)

TickerMapped == tickers.last # <<>>
LastTicker == tickers.last[1]
TickerSymbol == LastTicker.message.data.s

\* what the symbol's record held for a field before the last call, <<>> if nothing
StoredBefore(field) ==
    IF TickerSymbol \in DOMAIN LastTicker.before
    THEN LastTicker.before[TickerSymbol][field]
    ELSE <<>>

\* what the last message carries for a field, <<>> if nothing
Sent(field) ==
    LET data == LastTicker.message.data
    IN  CASE field = "fundingRate" /\ "r" \in DOMAIN data -> <<Number(data.r)>>
          [] field = "markPrice" /\ "p" \in DOMAIN data -> <<Number(data.p)>>
          [] field = "lastPrice" /\ "c" \in DOMAIN data -> <<Number(data.c)>>
          [] field = "timestamp" -> <<data.E>>
          [] OTHER -> <<>>

ReportedFields == {"fundingRate", "markPrice", "lastPrice", "timestamp"}

\* the last message carries a value that differs from the stored one
Differs == \E field \in ReportedFields : Sent(field) # <<>> /\ Sent(field) # StoredBefore(field)

----------------------------------------------------------------------------
(* C15 *)

\* C15: a map call of the derivative-ticker mapper yields at most one DerivativeTicker, and
\* yields one exactly when the message carries a value (funding rate, mark price, last price
\* or event time) that differs from the one stored for its symbol; a message that repeats
\* the stored values yields nothing; after a call that yielded, no field of the symbol is
\* marked as changed.
C15_EmitsOnlyOnChange ==
    TickerMapped =>
        /\ Len(LastTicker.yielded) <= 1
        /\ LastTicker.yielded # <<>> <=> Differs
        /\ LastTicker.yielded # <<>> =>
               tickers.pendingTickerInfoHelper[TickerSymbol].dirty = {}

\* a markPrice message repeating the rate, the price and the event time stored for its
\* symbol yielded nothing
C15_Witness ==
    /\ TickerMapped
    /\ "r" \in DOMAIN LastTicker.message.data
    /\ StoredBefore("fundingRate") = Sent("fundingRate")
    /\ StoredBefore("markPrice") = Sent("markPrice")
    /\ StoredBefore("timestamp") = Sent("timestamp")
    /\ LastTicker.yielded = <<>>

----------------------------------------------------------------------------
(* C16 *)

\* C16: a yielded DerivativeTicker carries, for each of funding rate, mark price and last
\* price, the message's value if the message has one and otherwise the value stored before
\* the call; the field is unknown exactly when no message for the symbol has ever set it
\* (a reported zero is a zero), and open interest, which no message sets, is unknown; the
\* call creates or changes the record of the message's symbol only.
C16_UntouchedFieldsKept ==
    TickerMapped =>
        /\ \A i \in 1..Len(LastTicker.yielded) :
               /\ LastTicker.yielded[i].symbol = TickerSymbol
               /\ LastTicker.yielded[i].openInterest = <<>>
               /\ \A field \in {"fundingRate", "markPrice", "lastPrice"} :
                      /\ LastTicker.yielded[i][field] =
                             IF Sent(field) # <<>> THEN Sent(field) ELSE StoredBefore(field)
                      /\ LastTicker.yielded[i][field] = <<>> <=>
                             field \notin tickers.reported[TickerSymbol]
        /\ \A field \in {"fundingRate", "markPrice", "lastPrice"} :
               Sent(field) = <<>> =>
                   tickers.pendingTickerInfoHelper[TickerSymbol][field] = StoredBefore(field)
        /\ DOMAIN tickers.pendingTickerInfoHelper = DOMAIN LastTicker.before \cup {TickerSymbol}
        /\ \A sym \in DOMAIN LastTicker.before \ {TickerSymbol} :
               tickers.pendingTickerInfoHelper[sym] = LastTicker.before[sym]

\* a markPrice message changed the mark price of a symbol whose last price had been reported
\* and whose funding rate it left alone, while another symbol had a record: the ticker
\* carries the new mark price and the last price reported before
C16_Witness ==
    /\ TickerMapped
    /\ LastTicker.yielded # <<>>
    /\ "r" \in DOMAIN LastTicker.message.data
    /\ Sent("markPrice") # StoredBefore("markPrice")
    /\ StoredBefore("lastPrice") # <<>>
    /\ LastTicker.yielded[1].lastPrice = StoredBefore("lastPrice")
    /\ LastTicker.yielded[1].markPrice = Sent("markPrice")
    /\ DOMAIN LastTicker.before \ {TickerSymbol} # {}

----------------------------------------------------------------------------
(* C18 *)

\* the mapping with the records of every symbol but sym removed
OnlyOf(mapping, sym) == [s \in DOMAIN mapping \cap {sym} |-> mapping[s]]

\* C18: a map call for a message of a symbol creates the symbol's record if it has none
\* (whatever the kind of message) and leaves the record of every other symbol as it was,
\* yields events of that symbol only, and yields, raises and leaves in the symbol's record
\* what the same call does in a mapper that holds no other symbol's record.
C18_PerSymbolIsolation ==
    Called =>
        /\ DOMAIN symbolToDepthInfoMapping = DOMAIN Last.before \cup {LastSymbol}
        /\ \A sym \in DOMAIN Last.before \ {LastSymbol} :
               symbolToDepthInfoMapping[sym] = Last.before[sym]
        /\ \A i \in 1..Len(Last.yielded) : Last.yielded[i].symbol = LastSymbol
        /\ LET alone == map(mapper, OnlyOf(Last.before, LastSymbol), Last.message,
                            Last.localTimestamp)
           IN  /\ alone.yielded = Last.yielded
               /\ alone.thrown = Last.thrown
               /\ alone.mapping[LastSymbol] = symbolToDepthInfoMapping[LastSymbol]

\* the first message of a symbol, a depth update, was buffered in a record created for it,
\* while the other symbol had processed its snapshot and kept its record
C18_Witness ==
    /\ Called
    /\ ~IsSnapshotMessage(Last.message)
    /\ LastSymbol \notin DOMAIN Last.before
    /\ count(symbolToDepthInfoMapping[LastSymbol].bufferedUpdates) = 1
    /\ \E sym \in DOMAIN Last.before :
           /\ SnapshotProcessedIn(Last.before, sym)
           /\ SnapshotProcessedIn(symbolToDepthInfoMapping, sym)

----------------------------------------------------------------------------
(* C19 *)

HasLastUpdateId(mapping, sym) == sym \in DOMAIN mapping /\ "lastUpdateId" \in DOMAIN mapping[sym]

\* C19: over drained map calls, a symbol's snapshotProcessed and validatedFirstUpdate stay
\* true once true, validatedFirstUpdate is true only if snapshotProcessed is, lastUpdateId
\* is set exactly when snapshotProcessed is, by the first snapshot message and to the id it
\* carries, and never changes afterwards: a symbol that is streaming stays streaming.
C19_OnlyForward ==
    /\ \A sym \in DOMAIN symbolToDepthInfoMapping :
           /\ ValidatedIn(symbolToDepthInfoMapping, sym) =>
                  SnapshotProcessedIn(symbolToDepthInfoMapping, sym)
           /\ HasLastUpdateId(symbolToDepthInfoMapping, sym) <=>
                  SnapshotProcessedIn(symbolToDepthInfoMapping, sym)
    /\ Called =>
           \A sym \in DOMAIN symbolToDepthInfoMapping :
               /\ SnapshotProcessedIn(Last.before, sym) =>
                      SnapshotProcessedIn(symbolToDepthInfoMapping, sym)
               /\ ValidatedIn(Last.before, sym) => ValidatedIn(symbolToDepthInfoMapping, sym)
               /\ HasLastUpdateId(symbolToDepthInfoMapping, sym) =>
                      IF HasLastUpdateId(Last.before, sym)
                      THEN symbolToDepthInfoMapping[sym].lastUpdateId = Last.before[sym].lastUpdateId
                      ELSE /\ sym = LastSymbol
                           /\ IsSnapshotMessage(Last.message)
                           /\ symbolToDepthInfoMapping[sym].lastUpdateId =
                                  Last.message.data.lastUpdateId

\* a streaming symbol accepted an update beyond lastUpdateId and is still streaming, with
\* the lastUpdateId it had
C19_Witness ==
    /\ LastWasStreaming
    /\ Last.accepted # <<>>
    /\ Last.message.data.u > Last.before[LastSymbol].lastUpdateId
    /\ ValidatedIn(symbolToDepthInfoMapping, LastSymbol)
    /\ symbolToDepthInfoMapping[LastSymbol].lastUpdateId = Last.before[LastSymbol].lastUpdateId

----------------------------------------------------------------------------
(* C20 *)

\* the first update that is not stale passes in the futures mapper
PassesFutures(data, lastUpdateId) ==
    (data.U <= lastUpdateId /\ data.u >= lastUpdateId) \/ data.pu = -1

\* C20: in the futures mapper, a depth update (with pu = -1 or not) that arrives before the
\* symbol's snapshot message is buffered and yields nothing; after the snapshot an update is
\* discarded when u < lastUpdateId and only then; an update that is not discarded is yielded
\* without error or log if the symbol is validated already or if U <= lastUpdateId <= u or
\* pu = -1, and otherwise is the overlap failure (raised or logged); every yielded update
\* has isSnapshot = (pu = -1), live or replayed from the buffer after the snapshot's own
\* BookChange.
C20_FuturesPredicates ==
    /\ IsFutures /\ Called /\ ~IsSnapshotMessage(Last.message) =>
           LET data == Last.message.data
               after == symbolToDepthInfoMapping[LastSymbol]
           IN  IF ~SnapshotProcessedIn(Last.before, LastSymbol)
               THEN /\ Last.yielded = <<>> /\ Last.thrown = <<>>
                    /\ ~Truthy(after, "snapshotProcessed")
                    /\ LET held == items(InfoIn(Last.before, LastSymbol).bufferedUpdates)
                       IN  items(after.bufferedUpdates) =
                               LastN(Append(held, data), Min(Len(held) + 1, BufferCapacity))
               ELSE LET lastUpdateId == Last.before[LastSymbol].lastUpdateId
                    IN  IF data.u < lastUpdateId
                        THEN /\ Last.yielded = <<>> /\ Last.thrown = <<>> /\ Last.debugged = <<>>
                             /\ symbolToDepthInfoMapping = Last.before
                        ELSE IF ValidatedIn(Last.before, LastSymbol) \/ PassesFutures(data, lastUpdateId)
                             THEN /\ Last.yielded = <<ExpectedUpdateEvent(data, data.pu = -1)>>
                                  /\ Last.thrown = <<>> /\ Last.debugged = <<>>
                                  /\ Truthy(after, "validatedFirstUpdate")
                             ELSE /\ Last.thrown # <<>> \/ Last.debugged # <<>>
                                  /\ Last.yielded \in {<<>>, <<ExpectedUpdateEvent(data, FALSE)>>}
    /\ IsFutures /\ LastIsFirstSnapshot =>
           /\ Last.yielded # <<>>
           /\ Last.yielded[1] = ExpectedSnapshotEvent
           /\ Len(Last.yielded) = Len(Last.accepted) + 1
           /\ \A i \in 1..Len(Last.accepted) :
                  /\ Last.accepted[i].u >= Last.message.data.lastUpdateId
                  /\ Last.yielded[i + 1] =
                         ExpectedUpdateEvent(Last.accepted[i], Last.accepted[i].pu = -1)

\* a strict futures mapper buffered an update with pu = -1 whose range lies beyond the
\* snapshot's lastUpdateId; the snapshot message yielded its own BookChange and then the
\* update's, with isSnapshot=true, and raised nothing
C20_Witness ==
    /\ IsFutures /\ IsStrict /\ LastIsFirstSnapshot
    /\ Last.thrown = <<>>
    /\ Len(Last.yielded) = 2
    /\ Last.accepted[1].pu = -1
    /\ Last.accepted[1].U > Last.message.data.lastUpdateId
    /\ Last.yielded[2].isSnapshot
    /\ history[LastSymbol].emitted = 2

----------------------------------------------------------------------------
(* C21 *)

\* the last call is a live update for a symbol that was not validated yet
LastIsFirstLiveUpdate == LastIsLiveUpdate /\ ~ValidatedIn(Last.before, LastSymbol)

\* C21: when a live update raises the overlap error, the call yields nothing and leaves the
\* whole mapping, and so the symbol's snapshotProcessed, lastUpdateId, validatedFirstUpdate
\* (unset) and buffer, as it was before the call; whatever was raised before, a live update
\* for a symbol that is not validated yet is discarded if stale, and otherwise is put to the
\* overlap test of its mapper: if it passes, it is yielded without error or log and the
\* symbol is validated, and if it fails in a strict mapper, the error is raised again.
C21_ErrorIsNotSticky ==
    /\ LastIsLiveUpdate /\ Last.thrown # <<>> =>
           /\ IsStrict
           /\ Last.yielded = <<>>
           /\ symbolToDepthInfoMapping = Last.before
           /\ SnapshotProcessedIn(symbolToDepthInfoMapping, LastSymbol)
           /\ ~ValidatedIn(symbolToDepthInfoMapping, LastSymbol)
    /\ LastIsFirstLiveUpdate /\ ~Stale(Last.message.data, Last.before[LastSymbol].lastUpdateId) =>
           IF Overlaps(Last.message.data, Last.before[LastSymbol].lastUpdateId)
           THEN /\ Last.thrown = <<>> /\ Last.debugged = <<>>
                /\ Last.yielded = <<ExpectedUpdateEvent(Last.message.data,
                                                        IsFutures /\ Last.message.data.pu = -1)>>
                /\ ValidatedIn(symbolToDepthInfoMapping, LastSymbol)
           ELSE IsStrict => Last.thrown # <<>>

\* a strict mapper raised the error on a live update of a symbol, nothing having been
\* buffered for it, and the next update for the symbol, which overlaps, is accepted: the
\* symbol is streaming
C21_Witness ==
    /\ LastIsFirstLiveUpdate
    /\ IsStrict
    /\ history[LastSymbol].raised = 1
    /\ history[LastSymbol].received = <<>>
    /\ Last.accepted = <<Last.message.data>>
    /\ ValidatedIn(symbolToDepthInfoMapping, LastSymbol)

-----------------------------------------------------------------------------
(* C22 *)

\* the call drained a first snapshot that replayed at least one buffered update
LastReplayed == LastIsFirstSnapshot /\ Len(Last.yielded) >= 2

\* the call buffered its depth update: the symbol had no snapshot yet
LastBuffered == Called /\ ~IsSnapshotMessage(Last.message) /\ ~SnapshotProcessedIn(Last.before, LastSymbol)

\* One map call, the receipt timestamp not going back: every event it yields carries
\* the mapper's exchange and the call's localTimestamp, which is not less than the
\* localTimestamp of any event the call before yielded; and the updates a snapshot
\* message replays carry the snapshot call's localTimestamp, not the one of the call
\* before, in which the last of them arrived.
EventsCarryCallStamp ==
    (Called => Last'.localTimestamp >= Last.localTimestamp) =>
        /\ \A i \in 1..Len(Last'.yielded) :
               /\ Last'.yielded[i].exchange = mapper.exchange
               /\ Last'.yielded[i].localTimestamp = Last'.localTimestamp
               /\ Called => \A j \in 1..Len(Last.yielded) :
                                Last'.yielded[i].localTimestamp >= Last.yielded[j].localTimestamp
        /\ (LastBuffered /\ LastReplayed' /\ LastSymbol' = LastSymbol) =>
               \A i \in 2..Len(Last'.yielded) :
                   /\ Last'.yielded[i].symbol = Last.message.data.s
                   /\ Last'.yielded[i].localTimestamp = Last'.yielded[1].localTimestamp
                   /\ Last'.yielded[i].localTimestamp # Last.localTimestamp

\* C22: every event emitted by one map call carries the exchange the mapper was
\* constructed with and the localTimestamp handed to that call; the buffered updates a
\* snapshot message replays are stamped with the snapshot call's localTimestamp and not
\* with the one they arrived with; so, the receipt timestamps being non-decreasing, the
\* localTimestamps of the events emitted never go back from one call to the next.
C22_EventsCarryCallStamp == [][EventsCarryCallStamp]_vars

\* a snapshot message replayed two buffered updates that had arrived in earlier calls:
\* the three events carry the snapshot call's localTimestamp
C22_Witness ==
    /\ LastReplayed
    /\ Len(Last.yielded) = 3
    /\ Len(history[LastSymbol].received) >= 2
    /\ \A i \in 1..3 : Last.yielded[i].localTimestamp = Last.localTimestamp
    /\ Last.localTimestamp = referenceTimestamp + calls

-----------------------------------------------------------------------------
(* C23 *)

Generator(k) == sequences.generators[k]

\* the lastUpdateId of the snapshot message generator k was created for
SnapshotIdOf(k) == Generator(k).message.data.lastUpdateId

\* how many BookChanges with isSnapshot=true were yielded for BTCUSDT
YieldedSnapshotEvents ==
    Cardinality({j \in 1..Len(sequences.yielded) :
                    /\ sequences.yielded[j].event.symbol = "BTCUSDT"
                    /\ sequences.yielded[j].event.isSnapshot})

NothingSuspended == \A k \in 1..Len(sequences.generators) : Generator(k).at = "done"

StoredLastUpdateId == symbolToDepthInfoMapping["BTCUSDT"].lastUpdateId

\* C23: a snapshot message's generator yields its isSnapshot=true BookChange before it
\* records anything: while none has gone on past that yield the symbol has no snapshot
\* recorded, and from then on lastUpdateId is the id of the snapshot message whose
\* generator went past the yield last. When every map generator is drained to its end
\* before the next map call, at most one snapshot message has its BookChange yielded
\* and it is the one recorded.
C23_SafeOnlyOneAfterAnother ==
    /\ SnapshotProcessedIn(symbolToDepthInfoMapping, "BTCUSDT") <=> sequences.recorded # <<>>
    /\ \A k \in 1..Len(sequences.generators) :
           Generator(k).at = "afterSnapshot" =>
               /\ \E j \in 1..Len(sequences.applied) : sequences.applied[j] = k
               /\ \A j \in 1..Len(sequences.recorded) : sequences.recorded[j] # k
               /\ \E j \in 1..Len(sequences.yielded) :
                      /\ sequences.yielded[j].sequence = k
                      /\ sequences.yielded[j].event.isSnapshot
    /\ sequences.recorded # <<>> =>
           StoredLastUpdateId = SnapshotIdOf(sequences.recorded[Len(sequences.recorded)])
    /\ sequences.oneAfterAnother =>
           /\ Len(sequences.applied) <= 1
           /\ Len(sequences.recorded) <= Len(sequences.applied)
           /\ \A j \in 1..Len(sequences.recorded) : sequences.recorded[j] = sequences.applied[j]

\* two snapshot messages with different ids had their BookChange yielded, the second
\* was drained while the first was suspended at its yield, then the first was drained:
\* two isSnapshot=true events, and lastUpdateId is the id of the first
C23_Witness ==
    /\ NothingSuspended
    /\ sequences.closed = {} /\ sequences.raised = {}
    /\ Len(sequences.applied) = 2
    /\ sequences.recorded = <<sequences.applied[2], sequences.applied[1]>>
    /\ SnapshotIdOf(sequences.applied[1]) # SnapshotIdOf(sequences.applied[2])
    /\ YieldedSnapshotEvents = 2
    /\ StoredLastUpdateId = SnapshotIdOf(sequences.applied[1])
    /\ ~sequences.oneAfterAnother

\* the first snapshot generator was closed at its yield and never went past it
FirstAbandoned ==
    /\ sequences.applied[1] \in sequences.closed
    /\ \A j \in 1..Len(sequences.recorded) : sequences.recorded[j] # sequences.applied[1]

\* the first snapshot generator was drained, after the second
FirstResumed ==
    /\ sequences.applied[1] \notin sequences.closed
    /\ sequences.recorded = <<sequences.applied[2], sequences.applied[1]>>

\* C23 as stated: when a second snapshot message is mapped and drained while the first
\* generator is suspended at its yield or was abandoned there, two isSnapshot=true events
\* are emitted and lastUpdateId ends at the first snapshot's id; and when every generator
\* is drained before the next map call, no state has two isSnapshot=true events emitted
\* for the symbol with lastUpdateId at the first snapshot's id.
C23_Original ==
    /\ (/\ NothingSuspended
        /\ Len(sequences.applied) = 2
        /\ sequences.applied[2] \notin sequences.closed
        /\ (FirstAbandoned \/ FirstResumed)) =>
           /\ YieldedSnapshotEvents >= 2
           /\ StoredLastUpdateId = SnapshotIdOf(sequences.applied[1])
    /\ (sequences.oneAfterAnother /\ NothingSuspended /\ sequences.applied # <<>>) =>
           ~(/\ YieldedSnapshotEvents >= 2
             /\ SnapshotProcessedIn(symbolToDepthInfoMapping, "BTCUSDT")
             /\ StoredLastUpdateId = SnapshotIdOf(sequences.applied[1]))

====
